---- MODULE Spec2Model ----
(***************************************************************************)
(* Model of the trip-planning server: the route handler                    *)
(* (routes/routeHandler.js), the cache, generation and e-mail services,    *)
(* and the inline pipeline of server.js.                                   *)
(*                                                                         *)
(* Text is a sequence of one-character strings.  Time is counted in ticks  *)
(* of the clock; the cache TTL is a number of ticks.                       *)
(***************************************************************************)
EXTENDS Integers, Sequences, FiniteSets, TLC

\* ------------------------------------------------------------------ bounds
MaxReqs == 2
MaxClock == 2
\* how many direct calls of the cache service a run of CacheSpec makes
MaxCalls == 3
Reqs == 1..MaxReqs

\* --------------------------------------------------- configuration values
\* config.cache.ttl, in clock ticks (process.env.CACHE_TTL)
CacheTTL == 1
\* config.openai.maxRetries (process.env.OPENAI_MAX_RETRIES)
OpenAIMaxRetries == 1
\* config.email.maxRetries (process.env.EMAIL_MAX_RETRIES)
EmailMaxRetries == 2
\* config.openai.maxTokens (OPENAI_MAX_TOKENS default)
ConfigMaxTokens == 4000
\* Math.min(4000, this.maxTokens + 2000)
TokenCeiling == 4000
TokenIncrement == 2000
\* MAX_RETRIES of the inline pipeline of server.js
MAX_RETRIES == 2
\* config.openai.retryDelay and config.email.retryDelay, in milliseconds
OpenAIRetryDelay == 2000
EmailRetryDelay == 5000
DefaultModel == "gpt-4o-mini"
FallbackModel == "gpt-3.5-turbo"

\* ------------------------------------------------------------------- text
Null == <<"null">>
IsNull(s) == s = Null
\* a value of type number (a people count given as an integer), by its digits
Number(digits) == <<"number">> \o digits
IsNumber(s) == s # <<>> /\ s[1] = "number"

\* String.prototype.toLowerCase on the alphabet of the model
LowerChar(c) ==
  CASE c = "P" -> "p"
    [] c = "A" -> "a"
    [] c = "R" -> "r"
    [] OTHER -> c
ToLowerCase(s) == [i \in 1..Len(s) |-> LowerChar(s[i])]

RECURSIVE TrimStart(_)
TrimStart(s) == IF s # <<>> /\ Head(s) = " " THEN TrimStart(Tail(s)) ELSE s
RECURSIVE TrimEnd(_)
TrimEnd(s) ==
  IF s # <<>> /\ s[Len(s)] = " " THEN TrimEnd(SubSeq(s, 1, Len(s) - 1)) ELSE s
\* String.prototype.trim
Trim(s) == TrimEnd(TrimStart(s))

\* ---------------------------------------------------------------- requests
\* The canonical fields produced by normalizeFormData: each is Null or a
\* non-empty trimmed text; people defaults to "1".
City_Pa == <<"P", "a">>
City_P == <<"P">>
Email_u == <<"u", "@", "x", ".", "y">>
Email_v == <<"v", "@", "x", ".", "y">>
FormData(city, email) ==
  [city |-> city, email |-> email, startDate |-> Null, endDate |-> Null,
   budget |-> Null, interests |-> Null, people |-> <<"1">>, name |-> Null]
\* The callers have addresses of their own: the first request comes from
\* u@x.y, the later ones from v@x.y.
EmailOf(r) == IF r = 1 THEN Email_u ELSE Email_v
\* what request r submits: a valid form, a city of one letter, no city, no
\* email
PayloadsOf(r) ==
  { FormData(City_Pa, EmailOf(r)), FormData(City_P, EmailOf(r)),
    FormData(Null, EmailOf(r)), FormData(City_Pa, Null) }
Payloads == UNION {PayloadsOf(r) : r \in Reqs}
NoData == FormData(Null, Null)

\* ---------------------------------------------------------------- validator
Digits == {"0", "1", "2", "3", "4", "5", "6", "7", "8", "9"}
\* Joi.string().email(): one "@", a local part, a dotted domain
IsEmail(s) ==
  \E i \in 1..Len(s) :
    /\ s[i] = "@"
    /\ \A j \in 1..Len(s) : s[j] = "@" => j = i
    /\ i > 1
    /\ \E k \in (i + 2)..(Len(s) - 1) : s[k] = "."
\* Joi.string().allow("", null).max(n).optional()
OptionalText(s, n) == IsNull(s) \/ Len(s) <= n
\* validateFormData checking only that city and email are there.
validateFormData_PresenceOnly(d) ==
  /\ ~IsNull(d.city) /\ d.city # <<>>
  /\ ~IsNull(d.email) /\ d.email # <<>>

\* formDataSchema.validate(data): isValid
validateFormData(d) ==
  /\ ~IsNull(d.city) /\ Len(d.city) >= 2 /\ Len(d.city) <= 100
  /\ ~IsNull(d.email) /\ d.email # <<>> /\ IsEmail(d.email)
  /\ OptionalText(d.budget, 500)
  /\ OptionalText(d.interests, 1000)
  /\ ~IsNull(d.people) /\ d.people # <<>>
  /\ \A i \in 1..Len(d.people) : d.people[i] \in Digits
  /\ OptionalText(d.name, 200)

\* ------------------------------------------------------------------- cache
\* x?.trim(): null stays out of the JSON (undefined), text is trimmed
OptTrim(s) == IF IsNull(s) THEN Null ELSE Trim(s)
OptLowerTrim(s) == IF IsNull(s) THEN Null ELSE Trim(ToLowerCase(s))
\* x.toLowerCase is not a function, x.trim is not a function
TypeError == [threw |-> "TypeError"]
\* generateKey keeping the case of the city.
generateKey_CaseSensitive(city, startDate, endDate, budget, interests, people) ==
  IF \E x \in {city, startDate, endDate, budget, interests, people} :
       IsNumber(x)
  THEN TypeError
  ELSE [city |-> OptTrim(city), startDate |-> OptTrim(startDate),
        endDate |-> OptTrim(endDate), budget |-> OptTrim(budget),
        interests |-> OptLowerTrim(interests), people |-> OptTrim(people)]
\* CacheService.generateKey: "route:" + md5(JSON.stringify(data)); the digest
\* is kept as the normalized data it is computed from, in which a field that
\* is undefined is left out (Null) and an empty text stays ("").  An argument
\* that is neither null, undefined nor a string has no toLowerCase or trim
\* method: the call throws.
generateKey(city, startDate, endDate, budget, interests, people) ==
  IF \E x \in {city, startDate, endDate, budget, interests, people} :
       IsNumber(x)
  THEN TypeError
  ELSE [city |-> OptLowerTrim(city), startDate |-> OptTrim(startDate),
        endDate |-> OptTrim(endDate), budget |-> OptTrim(budget),
        interests |-> OptLowerTrim(interests), people |-> OptTrim(people)]
\* the fingerprint of a form taking the recipient's address into the digest
KeyOf_WithEmail(d) ==
  IF generateKey(d.city, d.startDate, d.endDate, d.budget, d.interests,
                 d.people) = TypeError
  THEN TypeError
  ELSE [generateKey(d.city, d.startDate, d.endDate, d.budget, d.interests,
                    d.people) EXCEPT !.city = @ \o d.email]
\* the fingerprint of a form: generateKey applied to the six fields the
\* handler passes to cacheService.get and cacheService.set
KeyOf(d) ==
  generateKey(d.city, d.startDate, d.endDate, d.budget, d.interests, d.people)

\* The arguments the cache service is called with directly.  generateKey is
\* applied to the valid form and to forms that differ from it in one field:
\* by case and surrounding blanks, by another value, by an empty text, by an
\* integer people count.  get, set and delete are called with the valid form,
\* a variant of it and the form with the integer.
With(field, value) == [FormData(City_Pa, Email_u) EXCEPT ![field] = value]
KeyArgs ==
  { FormData(City_Pa, Email_u),
    With("city", <<" ", "p", "A">>),
    With("city", <<"R", "a">>),
    With("interests", <<"A", " ">>),
    With("interests", <<"a">>),
    With("budget", <<" ", "9">>),
    With("budget", <<"9">>),
    With("budget", <<>>),
    With("people", <<"1", " ">>),
    With("people", Number(<<"2">>)) }
CacheArgs ==
  { FormData(City_Pa, Email_u),
    With("city", <<" ", "p", "A">>),
    With("people", Number(<<"2">>)) }
AllKeys == {KeyOf(d) : d \in Payloads \cup CacheArgs} \ {TypeError}

NoEntry == [present |-> FALSE]
\* the value object built by CacheService.set, with the expiry instant t that
\* NodeCache attaches to it
Entry(route, d, meta, now) ==
  [present |-> TRUE, route |-> route, city |-> d.city,
   startDate |-> d.startDate, endDate |-> d.endDate, budget |-> d.budget,
   interests |-> d.interests, people |-> d.people,
   model |-> meta.model, finishReason |-> meta.finishReason,
   t |-> now + CacheTTL]
\* NodeCache._check: an entry whose expiry instant lies before now is stale
Expired(e, now) == e.present /\ e.t < now

\* ------------------------------------------------------------------- state
VARIABLES
  program,      \* "router": server with routes/routeHandler.js; "inline": server.js
  enabled,      \* CacheService.enabled (config.cache.enabled)
  emailFrom,    \* config.email.from is set
  smtpUser,     \* config.email.smtp.auth.user is set
  transporter,  \* EmailService.transporter is not null
  resendKey,    \* process.env.RESEND_API_KEY is set (server.js)
  tokenBudget,  \* config.openai.maxTokens (OPENAI_MAX_TOKENS)
  arrivals,     \* how many requests the callers submit in this run
  clock,        \* Date.now(), in ticks
  cache,        \* the NodeCache store: key -> entry
  maxTokens,    \* OpenAIService.maxTokens
  running,      \* the request whose synchronous code holds the event loop, or 0
  pc,           \* position of each request's handler / continuation
  formData,     \* the request's canonical fields
  responseSent, \* the handler's responseSent flag
  sent,         \* the responses written with res.status(..).json(..), in order
  cachedRoute,  \* the handler's cachedRoute
  gen,          \* the generateRoute call of the request: its options and frame
  aiResult,     \* the value generateRoute returned
  mail,         \* the sendRouteEmail call of the request: its emailData
  error,        \* the error raised into the continuation's catch block
  delivered,    \* sendRouteEmail returned { success: true }
  notification, \* how the sendErrorNotification call of the request went
  calls,        \* per request: how many times each collaborator was invoked
  trace         \* the direct calls of the cache service, with what they returned

vars ==
  <<program, enabled, emailFrom, smtpUser, transporter, resendKey,
    tokenBudget, arrivals, clock, cache,
    maxTokens, running, pc, formData, responseSent, sent, cachedRoute, gen,
    aiResult, mail, error, delivered, notification, calls, trace>>

config ==
  <<program, enabled, emailFrom, smtpUser, transporter, resendKey,
    tokenBudget, arrivals>>

NoFrame == [present |-> FALSE]
NoResult == [present |-> FALSE]
NoMail == [present |-> FALSE]
NoGen == [active |-> FALSE]
NoCalls ==
  [get |-> 0, generate |-> 0, fallback |-> 0, set |-> 0, deliver |-> 0,
   notify |-> 0, notifyMail |-> 0]

\* The deployments of the model: which server runs, what the environment
\* configures (CACHE_ENABLED, EMAIL_FROM, SMTP_USER, OPENAI_MAX_TOKENS;
\* whether createTransport succeeded), and how many requests arrive.
\* Concurrent requests are run against the default configuration, the
\* disabled cache (there with OPENAI_MAX_TOKENS=2000) and the inline server;
\* the mail settings that only change what one request's failure handling
\* does are run with one request.
Deployment(p, en, from, user, tr, key, tokens, n) ==
  [program |-> p, enabled |-> en, emailFrom |-> from, smtpUser |-> user,
   transporter |-> tr, resendKey |-> key, maxTokens |-> tokens,
   arrivals |-> n]
Deployments ==
  { Deployment("router", TRUE, TRUE, TRUE, TRUE, FALSE, ConfigMaxTokens, MaxReqs),
    Deployment("router", FALSE, TRUE, TRUE, TRUE, FALSE, 2000, MaxReqs),
    Deployment("router", TRUE, FALSE, TRUE, TRUE, FALSE, ConfigMaxTokens, 1),
    Deployment("router", TRUE, FALSE, FALSE, TRUE, FALSE, ConfigMaxTokens, 1),
    Deployment("router", TRUE, TRUE, TRUE, FALSE, FALSE, ConfigMaxTokens, 1),
    Deployment("inline", FALSE, FALSE, FALSE, FALSE, TRUE, ConfigMaxTokens, MaxReqs),
    Deployment("inline", FALSE, FALSE, FALSE, FALSE, FALSE, ConfigMaxTokens, MaxReqs) }

Init ==
  /\ \E c \in Deployments :
       /\ program = c.program
       /\ enabled = c.enabled
       /\ emailFrom = c.emailFrom
       /\ smtpUser = c.smtpUser
       /\ transporter = c.transporter
       /\ resendKey = c.resendKey
       /\ tokenBudget = c.maxTokens
       /\ arrivals = c.arrivals
  /\ clock = 0
  /\ cache = [k \in AllKeys |-> NoEntry]
  /\ maxTokens = tokenBudget
  /\ running = 0
  /\ pc = [r \in Reqs |-> "idle"]
  /\ formData = [r \in Reqs |-> NoData]
  /\ responseSent = [r \in Reqs |-> FALSE]
  /\ sent = [r \in Reqs |-> <<>>]
  /\ cachedRoute = [r \in Reqs |-> NoEntry]
  /\ gen = [r \in Reqs |-> NoGen]
  /\ aiResult = [r \in Reqs |-> NoResult]
  /\ mail = [r \in Reqs |-> NoMail]
  /\ error = [r \in Reqs |-> "none"]
  /\ delivered = [r \in Reqs |-> FALSE]
  /\ notification = [r \in Reqs |-> "none"]
  /\ calls = [r \in Reqs |-> NoCalls]
  /\ trace = <<>>

Count(r, what) == [calls EXCEPT ![r][what] = @ + 1]

\* -------------------------------------------------------- cache operations
\* CacheService.get: the entry under the key, or NoEntry (null) on a miss,
\* when the cache is disabled, or when NodeCache finds the entry stale
\* CacheGet returning whatever is stored, stale or not.
CacheGet_NoLazyExpiry(store, d, now) ==
  IF ~enabled \/ KeyOf(d) = TypeError THEN NoEntry
  ELSE store[KeyOf(d)]
\* (an error thrown by generateKey is caught and logged: null)
CacheGet(store, d, now) ==
  IF ~enabled \/ KeyOf(d) = TypeError THEN NoEntry
  ELSE IF store[KeyOf(d)].present /\ ~Expired(store[KeyOf(d)], now)
       THEN store[KeyOf(d)]
       ELSE NoEntry
\* NodeCache.get deletes the stale entry it finds (deleteOnExpire)
CacheAfterGet(store, d, now) ==
  IF enabled /\ KeyOf(d) # TypeError /\ Expired(store[KeyOf(d)], now)
  THEN [store EXCEPT ![KeyOf(d)] = NoEntry]
  ELSE store
\* CacheSet keeping the entry that is already stored under the key.
CacheSet_KeepFirst(store, d, route, meta, now) ==
  IF ~enabled \/ KeyOf(d) = TypeError THEN store
  ELSE IF store[KeyOf(d)].present THEN store
  ELSE [store EXCEPT ![KeyOf(d)] = Entry(route, d, meta, now)]
\* CacheSet storing the route whether the cache is enabled or not.
CacheSet_Always(store, d, route, meta, now) ==
  IF KeyOf(d) = TypeError THEN store
  ELSE [store EXCEPT ![KeyOf(d)] = Entry(route, d, meta, now)]
\* CacheService.set: the store after the call
CacheSet(store, d, route, meta, now) ==
  IF ~enabled \/ KeyOf(d) = TypeError THEN store
  ELSE [store EXCEPT ![KeyOf(d)] = Entry(route, d, meta, now)]
\* ... and what it returns: NodeCache.set's true; false when the cache is
\* disabled or generateKey threw
CacheSetResult(d) == enabled /\ KeyOf(d) # TypeError
\* CacheService.delete: NodeCache.del removes what is stored under the key,
\* stale or not; the call returns deleted > 0
CacheDelete(store, d) ==
  IF ~enabled \/ KeyOf(d) = TypeError THEN store
  ELSE [store EXCEPT ![KeyOf(d)] = NoEntry]
CacheDeleteResult(store, d) ==
  enabled /\ KeyOf(d) # TypeError /\ store[KeyOf(d)].present
\* CacheService.clear: NodeCache.flushAll; true unless disabled
CacheClear(store) ==
  IF ~enabled THEN store ELSE [k \in DOMAIN store |-> NoEntry]
\* CacheService.getStats: null when disabled, else the statistics of
\* NodeCache, of which the model keeps the number of keys
CacheStats(store) ==
  IF ~enabled THEN NoEntry
  ELSE [present |-> TRUE,
        keys |-> Cardinality({k \in DOMAIN store : store[k].present})]
\* NodeCache._checkData, run every checkperiod seconds
CacheSweep(store, now) ==
  [k \in DOMAIN store |-> IF Expired(store[k], now) THEN NoEntry ELSE store[k]]

\* ------------------------------------------------------------ the handler
ACCEPTED == "accepted: a manager will contact you"
PROCESSING == "route is being generated: check your mail"
ACCEPTED_LATER == "accepted: we will process it shortly"

\* sendResponse: res.status(200).json({ success, message }), once
sendResponse(r, success, message) ==
  IF responseSent[r]
  THEN UNCHANGED <<responseSent, sent>>
  ELSE /\ responseSent' = [responseSent EXCEPT ![r] = TRUE]
       /\ sent' = [sent EXCEPT ![r] =
                     Append(@, [status |-> 200, success |-> success,
                                message |-> message])]

\* The request arrives; parseTildaData and normalizeFormData run (or throw).
\* Requests are numbered in their order of arrival.
Receive(r, d, throws) ==
  /\ running = 0
  /\ pc[r] = "idle"
  /\ r <= arrivals
  /\ \A q \in Reqs : q < r => pc[q] # "idle"
  /\ running' = r
  /\ formData' = [formData EXCEPT ![r] = IF throws THEN NoData ELSE d]
  /\ pc' = [pc EXCEPT ![r] =
              IF throws THEN "threw"
              ELSE IF program = "router" THEN "validate" ELSE "check"]
  /\ UNCHANGED <<config, trace, clock, cache, maxTokens, responseSent, sent,
                 cachedRoute, gen, aiResult, mail, error, delivered, calls,
                 notification>>

\* OuterCatch answering with a failure indication.
OuterCatch_Failure(r) ==
  /\ running = r
  /\ pc[r] = "threw"
  /\ sendResponse(r, FALSE, ACCEPTED_LATER)
  /\ pc' = [pc EXCEPT ![r] = "done"]
  /\ running' = 0
  /\ UNCHANGED <<config, trace, clock, cache, maxTokens, formData, cachedRoute, gen,
                 aiResult, mail, error, delivered, calls, notification>>

\* The outer catch block: acknowledge if nothing was sent yet.
OuterCatch(r) ==
  /\ running = r
  /\ pc[r] = "threw"
  /\ sendResponse(r, TRUE, ACCEPTED_LATER)
  /\ pc' = [pc EXCEPT ![r] = "done"]
  /\ running' = 0
  /\ UNCHANGED <<config, trace, clock, cache, maxTokens, formData, cachedRoute, gen,
                 aiResult, mail, error, delivered, calls, notification>>

\* Validate letting every form through.
Validate_Anything(r) ==
  /\ running = r
  /\ pc[r] = "validate"
  /\ pc' = [pc EXCEPT ![r] = "lookup"]
  /\ UNCHANGED <<config, trace, clock, cache, maxTokens, running, formData,
                 responseSent, sent, cachedRoute, gen, aiResult, mail, error,
                 delivered, calls, notification>>

\* validateFormData: an invalid form is acknowledged and dropped.
Validate(r) ==
  /\ running = r
  /\ pc[r] = "validate"
  /\ IF validateFormData(formData[r])
     THEN /\ pc' = [pc EXCEPT ![r] = "lookup"]
          /\ UNCHANGED <<running, responseSent, sent>>
     ELSE /\ sendResponse(r, TRUE, ACCEPTED)
          /\ pc' = [pc EXCEPT ![r] = "done"]
          /\ running' = 0
  /\ UNCHANGED <<config, trace, clock, cache, maxTokens, formData, cachedRoute, gen,
                 aiResult, mail, error, delivered, calls, notification>>

\* Lookup restarting the TTL of the entry it returns.
Lookup_Touch(r) ==
  /\ running = r
  /\ pc[r] = "lookup"
  /\ cachedRoute' = [cachedRoute EXCEPT ![r] = CacheGet(cache, formData[r], clock)]
  /\ cache' = IF CacheGet(cache, formData[r], clock).present
              THEN [cache EXCEPT ![KeyOf(formData[r])].t = clock + CacheTTL]
              ELSE CacheAfterGet(cache, formData[r], clock)
  /\ calls' = Count(r, "get")
  /\ pc' = [pc EXCEPT ![r] = "ack"]
  /\ UNCHANGED <<config, trace, clock, maxTokens, running, formData, responseSent,
                 sent, gen, aiResult, mail, error, delivered, notification>>

\* cacheService.get(city, startDate, endDate, budget, interests, people)
Lookup(r) ==
  /\ running = r
  /\ pc[r] = "lookup"
  /\ cachedRoute' = [cachedRoute EXCEPT ![r] = CacheGet(cache, formData[r], clock)]
  /\ cache' = CacheAfterGet(cache, formData[r], clock)
  /\ calls' = Count(r, "get")
  /\ pc' = [pc EXCEPT ![r] = "ack"]
  /\ UNCHANGED <<config, trace, clock, maxTokens, running, formData, responseSent,
                 sent, gen, aiResult, mail, error, delivered, notification>>

\* Ack leaving the acknowledgment to the end of the background work.
Ack_Late(r) ==
  /\ running = r
  /\ pc[r] = "ack"
  /\ pc' = [pc EXCEPT ![r] = "spawn"]
  /\ UNCHANGED <<config, trace, clock, cache, maxTokens, running, formData,
                 responseSent, sent, cachedRoute, gen, aiResult, mail, error,
                 delivered, calls, notification>>

\* Ack telling the caller that the route was found in the cache.
Ack_RevealsHit(r) ==
  /\ running = r
  /\ pc[r] = "ack"
  /\ sendResponse(r, TRUE, IF cachedRoute[r].present
                           THEN "route found: it is on its way"
                           ELSE PROCESSING)
  /\ pc' = [pc EXCEPT ![r] = "spawn"]
  /\ UNCHANGED <<config, trace, clock, cache, maxTokens, running, formData,
                 cachedRoute, gen, aiResult, mail, error, delivered, calls,
                 notification>>

\* The acknowledgment of a valid request, on the hit and the miss path.
Ack(r) ==
  /\ running = r
  /\ pc[r] = "ack"
  /\ sendResponse(r, TRUE, PROCESSING)
  /\ pc' = [pc EXCEPT ![r] = "spawn"]
  /\ UNCHANGED <<config, trace, clock, cache, maxTokens, running, formData,
                 cachedRoute, gen, aiResult, mail, error, delivered, calls,
                 notification>>

\* ------------------------------------------------ service requests
\* The document the service writes for request r with model m: every
\* generation is a document of its own.
Doc(r, m) == <<"route", r, m>>
\* choice?.message?.content || "Маршрут не удалось создать."
DefaultContent == <<"route could not be created">>
\* The success responses: a complete document, a truncated one, no choices.
OkResponses ==
  { [content |-> TRUE, finish |-> "stop"], [content |-> TRUE, finish |-> "length"],
    [content |-> FALSE, finish |-> ""] }
Min(a, b) == IF a < b THEN a ELSE b

\* The request body of one fetch: model and max_tokens; the options of the
\* generateRoute frame that issued it; outer is the frame of the truncated
\* primary call that awaits this one, if any; fetches counts the requests the
\* generateRoute call of the handler has issued so far; failed lists how the
\* earlier requests of this options chain (retryCount 0, 1, ..) failed; wait
\* is the delay being slept before the next one.
Fetch(model, useFallback, retryCount, outer, tokens, fetches) ==
  [active |-> TRUE, model |-> model, useFallback |-> useFallback,
   retryCount |-> retryCount, outer |-> outer, max_tokens |-> tokens,
   fetches |-> fetches, failed |-> <<>>, wait |-> 0]
\* how a request failed, as logged: the HTTP status, an abort, another error
HttpFailure(status) ==
  CASE status = 429 -> "http429"
    [] status >= 500 -> "http500"
    [] OTHER -> "http400"
\* new Error(`OpenAI API error: ${response.status} - ...`)
ApiError(status) ==
  CASE status = 429 -> "api429"
    [] status >= 500 -> "api500"
    [] OTHER -> "api400"

\* ------------------------------------------------------- delivery client
\* the errors generateRoute rejects with
GenFailures == {"api400", "api429", "api500", "timeout", "network"}
\* ... and those of the continuation ("empty") and of the inline loop ("api")
GenErrors == GenFailures \cup {"api", "empty"}
MailErrors == {"transporter", "recipient", "smtp"}

\* EmailService.sendRouteEmail as called by the handler: the two precondition
\* checks, then the first transporter.sendMail.  The emailData of the call
\* carries retryCount; failed lists how the earlier sendMail calls of the
\* call failed and attempts counts the sendMail calls made so far.
sendRouteEmail(r, route) ==
  IF ~transporter
  THEN /\ error' = [error EXCEPT ![r] = "transporter"]
       /\ pc' = [pc EXCEPT ![r] = "raised"]
       /\ calls' = Count(r, "deliver")
       /\ UNCHANGED mail
  ELSE IF IsNull(formData[r].email)
  THEN /\ error' = [error EXCEPT ![r] = "recipient"]
       /\ pc' = [pc EXCEPT ![r] = "raised"]
       /\ calls' = Count(r, "deliver")
       /\ UNCHANGED mail
  ELSE /\ mail' = [mail EXCEPT ![r] =
                     [present |-> TRUE, to |-> formData[r].email,
                      route |-> route, retryCount |-> 0, wait |-> 0,
                      failed |-> <<>>, attempts |-> 1]]
       /\ pc' = [pc EXCEPT ![r] = "sending"]
       /\ calls' = Count(r, "deliver")
       /\ UNCHANGED error

\* SpawnHit mailing another property of the cached value than its route.
SpawnHit_WrongField(r) ==
  /\ program = "router"
  /\ running = r
  /\ pc[r] = "spawn"
  /\ cachedRoute[r].present
  /\ sendRouteEmail(r, cachedRoute[r].city)
  /\ running' = 0
  /\ UNCHANGED <<config, trace, clock, cache, maxTokens, formData, responseSent,
                 sent, cachedRoute, gen, aiResult, delivered, notification>>

\* Cache hit: the detached continuation mails the cached route; the handler
\* returns.
SpawnHit(r) ==
  /\ program = "router"
  /\ running = r
  /\ pc[r] = "spawn"
  /\ cachedRoute[r].present
  /\ sendRouteEmail(r, cachedRoute[r].route)
  /\ running' = 0
  /\ UNCHANGED <<config, trace, clock, cache, maxTokens, formData, responseSent,
                 sent, cachedRoute, gen, aiResult, delivered, notification>>

\* transporter.sendMail settles: sent, a retryable error (ECONNECTION,
\* ETIMEDOUT, ESOCKET, responseCode >= 500) or another error.  The locals of
\* a continuation (route, emailData, cachedRoute) end with the block that
\* declares them.
MailOutcomes == {"ok", "retryable", "fatal"}

\* SendDone sleeping retryDelay before every retry.
SendDone_Flat(r, outcome) ==
  /\ running = 0
  /\ pc[r] = "sending"
  /\ IF outcome = "ok"
     THEN /\ delivered' = [delivered EXCEPT ![r] = TRUE]
          /\ pc' = [pc EXCEPT ![r] = "done"]
          /\ mail' = [mail EXCEPT ![r] = NoMail]
          /\ cachedRoute' = [cachedRoute EXCEPT ![r] = NoEntry]
          /\ UNCHANGED error
     ELSE IF mail[r].retryCount < EmailMaxRetries /\ outcome = "retryable"
     THEN /\ pc' = [pc EXCEPT ![r] = "mail_backoff"]
          /\ mail' = [mail EXCEPT ![r].wait = EmailRetryDelay,
                                    ![r].failed = Append(@, outcome)]
          /\ UNCHANGED <<error, delivered, cachedRoute>>
     ELSE /\ error' = [error EXCEPT ![r] = "smtp"]
          /\ pc' = [pc EXCEPT ![r] = "raised"]
          /\ mail' = [mail EXCEPT ![r] = NoMail]
          /\ UNCHANGED <<delivered, cachedRoute>>
  /\ UNCHANGED <<config, trace, clock, cache, maxTokens, running, formData,
                 responseSent, sent, gen, aiResult, calls, notification>>

\* SendDone retrying while retryCount <= maxRetries.
SendDone_OneMore(r, outcome) ==
  /\ running = 0
  /\ pc[r] = "sending"
  /\ IF outcome = "ok"
     THEN /\ delivered' = [delivered EXCEPT ![r] = TRUE]
          /\ pc' = [pc EXCEPT ![r] = "done"]
          /\ mail' = [mail EXCEPT ![r] = NoMail]
          /\ cachedRoute' = [cachedRoute EXCEPT ![r] = NoEntry]
          /\ UNCHANGED error
     ELSE IF mail[r].retryCount <= EmailMaxRetries /\ outcome = "retryable"
     THEN /\ pc' = [pc EXCEPT ![r] = "mail_backoff"]
          /\ mail' = [mail EXCEPT ![r].wait =
                                    EmailRetryDelay * (mail[r].retryCount + 1),
                                    ![r].failed = Append(@, outcome)]
          /\ UNCHANGED <<error, delivered, cachedRoute>>
     ELSE /\ error' = [error EXCEPT ![r] = "smtp"]
          /\ pc' = [pc EXCEPT ![r] = "raised"]
          /\ mail' = [mail EXCEPT ![r] = NoMail]
          /\ UNCHANGED <<delivered, cachedRoute>>
  /\ UNCHANGED <<config, trace, clock, cache, maxTokens, running, formData,
                 responseSent, sent, gen, aiResult, calls, notification>>

\* SendDone retrying after every error while retries remain.
SendDone_RetryAll(r, outcome) ==
  /\ running = 0
  /\ pc[r] = "sending"
  /\ IF outcome = "ok"
     THEN /\ delivered' = [delivered EXCEPT ![r] = TRUE]
          /\ pc' = [pc EXCEPT ![r] = "done"]
          /\ mail' = [mail EXCEPT ![r] = NoMail]
          /\ cachedRoute' = [cachedRoute EXCEPT ![r] = NoEntry]
          /\ UNCHANGED error
     ELSE IF mail[r].retryCount < EmailMaxRetries
     THEN /\ pc' = [pc EXCEPT ![r] = "mail_backoff"]
          /\ mail' = [mail EXCEPT ![r].wait =
                                    EmailRetryDelay * (mail[r].retryCount + 1),
                                    ![r].failed = Append(@, outcome)]
          /\ UNCHANGED <<error, delivered, cachedRoute>>
     ELSE /\ error' = [error EXCEPT ![r] = "smtp"]
          /\ pc' = [pc EXCEPT ![r] = "raised"]
          /\ mail' = [mail EXCEPT ![r] = NoMail]
          /\ UNCHANGED <<delivered, cachedRoute>>
  /\ UNCHANGED <<config, trace, clock, cache, maxTokens, running, formData,
                 responseSent, sent, gen, aiResult, calls, notification>>

\* transporter.sendMail settles.  A retryable error with retries left:
\* delay(retryDelay * (retryCount + 1)); otherwise the error is rethrown.
SendDone(r, outcome) ==
  /\ running = 0
  /\ pc[r] = "sending"
  /\ IF outcome = "ok"
     THEN /\ delivered' = [delivered EXCEPT ![r] = TRUE]
          /\ pc' = [pc EXCEPT ![r] = "done"]
          /\ mail' = [mail EXCEPT ![r] = NoMail]
          /\ cachedRoute' = [cachedRoute EXCEPT ![r] = NoEntry]
          /\ UNCHANGED error
     ELSE IF mail[r].retryCount < EmailMaxRetries /\ outcome = "retryable"
     THEN /\ pc' = [pc EXCEPT ![r] = "mail_backoff"]
          /\ mail' = [mail EXCEPT ![r].wait =
                                    EmailRetryDelay * (mail[r].retryCount + 1),
                                    ![r].failed = Append(@, outcome)]
          /\ UNCHANGED <<error, delivered, cachedRoute>>
     ELSE /\ error' = [error EXCEPT ![r] = "smtp"]
          /\ pc' = [pc EXCEPT ![r] = "raised"]
          /\ mail' = [mail EXCEPT ![r] = NoMail]
          /\ UNCHANGED <<delivered, cachedRoute>>
  /\ UNCHANGED <<config, trace, clock, cache, maxTokens, running, formData,
                 responseSent, sent, gen, aiResult, calls, notification>>

\* MailBackoffDone passing the emailData on with retryCount as it was.
MailBackoffDone_SameCount(r) ==
  /\ running = 0
  /\ pc[r] = "mail_backoff"
  /\ mail' = [mail EXCEPT ![r].wait = 0,
                          ![r].failed = SubSeq(@, 1, Len(@) - 1)]
  /\ pc' = [pc EXCEPT ![r] = "sending"]
  /\ UNCHANGED <<config, trace, clock, cache, maxTokens, running, formData,
                 responseSent, sent, cachedRoute, gen, aiResult, error,
                 delivered, calls, notification>>

\* After delay(retryDelay * (retryCount + 1)): sendRouteEmail calls itself
\* with retryCount + 1.
MailBackoffDone(r) ==
  /\ running = 0
  /\ pc[r] = "mail_backoff"
  /\ mail' = [mail EXCEPT ![r].retryCount = @ + 1, ![r].wait = 0,
                          ![r].attempts = @ + 1]
  /\ pc' = [pc EXCEPT ![r] = "sending"]
  /\ UNCHANGED <<config, trace, clock, cache, maxTokens, running, formData,
                 responseSent, sent, cachedRoute, gen, aiResult, error,
                 delivered, calls, notification>>

\* CatchHit logging the error and throwing it again: the promise of the
\* continuation rejects and nothing handles it.
CatchHit_Rethrow(r) ==
  /\ running = 0
  /\ pc[r] = "raised"
  /\ cachedRoute[r].present
  /\ pc' = [pc EXCEPT ![r] = "unhandled"]
  /\ cachedRoute' = [cachedRoute EXCEPT ![r] = NoEntry]
  /\ UNCHANGED <<config, trace, clock, cache, maxTokens, running, formData,
                 responseSent, sent, gen, aiResult, mail, error, delivered,
                 calls, notification>>

\* CatchHit dropping the cached route whose delivery failed.
CatchHit_Evict(r) ==
  /\ running = 0
  /\ pc[r] = "raised"
  /\ cachedRoute[r].present
  /\ pc' = [pc EXCEPT ![r] = "done"]
  /\ cachedRoute' = [cachedRoute EXCEPT ![r] = NoEntry]
  /\ cache' = CacheDelete(cache, formData[r])
  /\ UNCHANGED <<config, trace, clock, maxTokens, running, formData,
                 responseSent, sent, gen, aiResult, mail, error, delivered,
                 calls, notification>>

\* The catch block of the cache-hit continuation: the error is logged.
CatchHit(r) ==
  /\ running = 0
  /\ pc[r] = "raised"
  /\ cachedRoute[r].present
  /\ pc' = [pc EXCEPT ![r] = "done"]
  /\ cachedRoute' = [cachedRoute EXCEPT ![r] = NoEntry]
  /\ UNCHANGED <<config, trace, clock, cache, maxTokens, running, formData,
                 responseSent, sent, gen, aiResult, mail, error, delivered,
                 calls, notification>>

\* CatchMiss without the notification.
CatchMiss_Silent(r) ==
  /\ running = 0
  /\ pc[r] = "raised"
  /\ ~cachedRoute[r].present
  /\ pc' = [pc EXCEPT ![r] = "done"]
  /\ UNCHANGED <<config, trace, clock, cache, maxTokens, running, formData,
                 responseSent, sent, cachedRoute, gen, aiResult, mail, error,
                 delivered, calls, notification>>

\* CatchMiss calling generateRoute again after a failure.
CatchMiss_Retry(r) ==
  /\ running = 0
  /\ pc[r] = "raised"
  /\ ~cachedRoute[r].present
  /\ gen' = [gen EXCEPT ![r] =
                Fetch(DefaultModel, TRUE, 0, NoFrame, maxTokens, 1)]
  /\ calls' = Count(r, "generate")
  /\ pc' = [pc EXCEPT ![r] = "fetching"]
  /\ UNCHANGED <<config, trace, clock, cache, maxTokens, running, formData,
                 responseSent, sent, cachedRoute, aiResult, mail, error,
                 delivered, notification>>

\* CatchMiss deleting the route it cached when the work fails.
CatchMiss_Invalidate(r) ==
  /\ running = 0
  /\ pc[r] = "raised"
  /\ ~cachedRoute[r].present
  /\ cache' = [cache EXCEPT ![KeyOf(formData[r])] = NoEntry]
  /\ pc' = [pc EXCEPT ![r] = "done"]
  /\ UNCHANGED <<config, trace, clock, maxTokens, running, formData, responseSent,
                 sent, cachedRoute, gen, aiResult, mail, error, delivered,
                 calls, notification>>

\* CatchMiss reporting the failure to the caller with a second response.
CatchMiss_Respond(r) ==
  /\ running = 0
  /\ pc[r] = "raised"
  /\ ~cachedRoute[r].present
  /\ sent' = [sent EXCEPT ![r] =
                 Append(@, [status |-> 200, success |-> TRUE,
                            message |-> ACCEPTED_LATER])]
  /\ pc' = [pc EXCEPT ![r] = "done"]
  /\ UNCHANGED <<config, trace, clock, cache, maxTokens, running, formData,
                 responseSent, cachedRoute, gen, aiResult, mail, error,
                 delivered, calls, notification>>

\* The catch block of the cache-miss continuation: the error is logged and,
\* if a sender is configured, emailService.sendErrorNotification is called.
\* That call returns at once without config.email.from ("skipped"); with a
\* null transporter the TypeError of this.transporter.sendMail is thrown
\* inside its try block and caught there ("failed"); otherwise the mail to the
\* operator is in flight ("sending").
CatchMiss(r) ==
  /\ running = 0
  /\ pc[r] = "raised"
  /\ ~cachedRoute[r].present
  /\ IF emailFrom \/ smtpUser
     THEN IF ~emailFrom
          THEN /\ calls' = Count(r, "notify")
               /\ notification' = [notification EXCEPT ![r] = "skipped"]
               /\ pc' = [pc EXCEPT ![r] = "done"]
          ELSE IF ~transporter
          THEN /\ calls' = Count(r, "notify")
               /\ notification' = [notification EXCEPT ![r] = "failed"]
               /\ pc' = [pc EXCEPT ![r] = "done"]
          ELSE /\ calls' = [calls EXCEPT ![r]["notify"] = @ + 1,
                                         ![r]["notifyMail"] = @ + 1]
               /\ notification' = [notification EXCEPT ![r] = "sending"]
               /\ pc' = [pc EXCEPT ![r] = "notifying"]
     ELSE /\ pc' = [pc EXCEPT ![r] = "done"]
          /\ UNCHANGED <<calls, notification>>
  /\ UNCHANGED <<config, trace, clock, cache, maxTokens, running, formData,
                 responseSent, sent, cachedRoute, gen, aiResult, mail, error,
                 delivered>>

\* NotifyDone sending the notification again when the transport refused it.
NotifyDone_Again(r, ok) ==
  /\ running = 0
  /\ pc[r] = "notifying"
  /\ IF ok \/ calls[r].notifyMail > 1
     THEN /\ notification' = [notification EXCEPT ![r] =
                                 IF ok THEN "sent" ELSE "failed"]
          /\ pc' = [pc EXCEPT ![r] = "done"]
          /\ UNCHANGED calls
     ELSE /\ calls' = Count(r, "notifyMail")
          /\ UNCHANGED <<notification, pc>>
  /\ UNCHANGED <<config, trace, clock, cache, maxTokens, running, formData,
                 responseSent, sent, cachedRoute, gen, aiResult, mail, error,
                 delivered>>

\* NotifyDone letting the transport's error out of sendErrorNotification.
NotifyDone_Rejects(r, ok) ==
  /\ running = 0
  /\ pc[r] = "notifying"
  /\ notification' = [notification EXCEPT ![r] =
                        IF ok THEN "sent" ELSE "rejected"]
  /\ pc' = [pc EXCEPT ![r] = "done"]
  /\ UNCHANGED <<config, trace, clock, cache, maxTokens, running, formData,
                 responseSent, sent, cachedRoute, gen, aiResult, mail, error,
                 delivered, calls>>

\* The notification's sendMail settles: sent, or the transport's error is
\* caught and logged inside sendErrorNotification, which then returns.
NotifyDone(r, ok) ==
  /\ running = 0
  /\ pc[r] = "notifying"
  /\ notification' = [notification EXCEPT ![r] =
                        IF ok THEN "sent" ELSE "failed"]
  /\ pc' = [pc EXCEPT ![r] = "done"]
  /\ UNCHANGED <<config, trace, clock, cache, maxTokens, running, formData,
                 responseSent, sent, cachedRoute, gen, aiResult, mail, error,
                 delivered, calls>>

\* ------------------------------------------------------------------- time
Tick ==
  /\ running = 0
  /\ clock < MaxClock
  /\ clock' = clock + 1
  /\ UNCHANGED <<config, trace, cache, maxTokens, running, pc, formData,
                 responseSent, sent, cachedRoute, gen, aiResult, mail, error,
                 delivered, calls, notification>>

\* The periodic check of NodeCache removes the stale entries.
Sweep ==
  /\ running = 0
  /\ enabled
  /\ \E k \in AllKeys : Expired(cache[k], clock)
  /\ cache' = CacheSweep(cache, clock)
  /\ UNCHANGED <<config, trace, clock, maxTokens, running, pc, formData,
                 responseSent, sent, cachedRoute, gen, aiResult, mail, error,
                 delivered, calls, notification>>

\* ----------------------------------------------------- generation client
\* SpawnMiss joining the generation another request of the same fingerprint
\* has in flight instead of starting its own.
SpawnMiss_SingleFlight(r) ==
  /\ program = "router"
  /\ running = r
  /\ pc[r] = "spawn"
  /\ ~cachedRoute[r].present
  /\ IF \E q \in Reqs \ {r} :
          gen[q].active /\ KeyOf(formData[q]) = KeyOf(formData[r])
     THEN /\ pc' = [pc EXCEPT ![r] = "done"]
          /\ UNCHANGED <<gen, calls>>
     ELSE /\ gen' = [gen EXCEPT ![r] =
                        Fetch(DefaultModel, TRUE, 0, NoFrame, maxTokens, 1)]
          /\ calls' = Count(r, "generate")
          /\ pc' = [pc EXCEPT ![r] = "fetching"]
  /\ running' = 0
  /\ UNCHANGED <<config, trace, clock, cache, maxTokens, formData, responseSent,
                 sent, cachedRoute, aiResult, mail, error, delivered,
                 notification>>

\* Cache miss: the detached continuation builds the prompt and calls
\* openaiService.generateRoute(prompt); the handler returns.
SpawnMiss(r) ==
  /\ program = "router"
  /\ running = r
  /\ pc[r] = "spawn"
  /\ ~cachedRoute[r].present
  /\ gen' = [gen EXCEPT ![r] =
                Fetch(DefaultModel, TRUE, 0, NoFrame, maxTokens, 1)]
  /\ calls' = Count(r, "generate")
  /\ pc' = [pc EXCEPT ![r] = "fetching"]
  /\ running' = 0
  /\ UNCHANGED <<config, trace, clock, cache, maxTokens, formData, responseSent,
                 sent, cachedRoute, aiResult, mail, error, delivered,
                 notification>>

\* The request failed in a way that is retried:
\* delay(retryDelay * (retryCount + 1)), then the recursive call
GenRetry(r, failure) ==
  /\ gen' = [gen EXCEPT ![r].failed = Append(@, failure),
                         ![r].wait = OpenAIRetryDelay * (gen[r].retryCount + 1)]
  /\ pc' = [pc EXCEPT ![r] = "gen_backoff"]
  /\ UNCHANGED <<aiResult, error, maxTokens, calls>>

\* A frame returns res.  Inside the fallback call made after a truncation the
\* awaiting frame restores maxTokens and returns the fallback's result.
GenReturn(r, res) ==
  /\ aiResult' = [aiResult EXCEPT ![r] = res]
  /\ maxTokens' = IF gen[r].outer.present
                  THEN gen[r].outer.originalMaxTokens ELSE maxTokens
  /\ gen' = [gen EXCEPT ![r] = NoGen]
  /\ pc' = [pc EXCEPT ![r] = "gen_returned"]
  /\ UNCHANGED <<error, calls>>

\* GenRaise letting the error of the fallback call out.
GenRaise_Propagate(r, err) ==
  /\ error' = [error EXCEPT ![r] = err]
  /\ pc' = [pc EXCEPT ![r] = "raised"]
  /\ maxTokens' = IF gen[r].outer.present
                  THEN gen[r].outer.originalMaxTokens ELSE maxTokens
  /\ gen' = [gen EXCEPT ![r] = NoGen]
  /\ UNCHANGED <<aiResult, calls>>

\* A frame throws.  Inside the fallback call made after a truncation the
\* awaiting frame catches, restores maxTokens and returns its own truncated
\* result; otherwise generateRoute rejects.
GenRaise(r, err) ==
  /\ IF gen[r].outer.present
     THEN /\ aiResult' = [aiResult EXCEPT ![r] = gen[r].outer.result]
          /\ maxTokens' = gen[r].outer.originalMaxTokens
          /\ pc' = [pc EXCEPT ![r] = "gen_returned"]
          /\ UNCHANGED error
     ELSE /\ error' = [error EXCEPT ![r] = err]
          /\ pc' = [pc EXCEPT ![r] = "raised"]
          /\ UNCHANGED <<aiResult, maxTokens>>
  /\ gen' = [gen EXCEPT ![r] = NoGen]
  /\ UNCHANGED calls

\* generateRoute(prompt, { model: fallbackModel, useFallback: false,
\* retryCount: 0 }) and its fetch
GenFallback(r, outer, tokens) ==
  /\ gen' = [gen EXCEPT ![r] =
                Fetch(FallbackModel, FALSE, 0, outer, tokens, gen[r].fetches + 1)]
  /\ maxTokens' = tokens
  /\ calls' = Count(r, "fallback")
  /\ UNCHANGED <<pc, aiResult, error>>

\* FetchOk trying the fallback model after any truncated attempt.
FetchOk_AnyAttempt(r, resp) ==
  /\ running = 0
  /\ pc[r] = "fetching"
  /\ LET g == gen[r]
         content == IF resp.content THEN Doc(r, g.model) ELSE <<>>
         res == [present |-> TRUE,
                 content |-> IF content = <<>> THEN DefaultContent ELSE content,
                 finishReason |-> IF resp.finish = "" THEN "unknown"
                                  ELSE resp.finish,
                 model |-> g.model]
     IN IF /\ res.finishReason = "length"
           /\ g.useFallback
           /\ g.model # FallbackModel
        THEN GenFallback(r, [present |-> TRUE, result |-> res,
                             originalMaxTokens |-> maxTokens],
                         Min(TokenCeiling, maxTokens + TokenIncrement))
        ELSE GenReturn(r, res)
  /\ UNCHANGED <<config, trace, clock, cache, running, formData, responseSent, sent,
                 cachedRoute, mail, delivered, notification>>

\* The service answers with a success status.
FetchOk(r, resp) ==
  /\ running = 0
  /\ pc[r] = "fetching"
  /\ LET g == gen[r]
         content == IF resp.content THEN Doc(r, g.model) ELSE <<>>
         res == [present |-> TRUE,
                 content |-> IF content = <<>> THEN DefaultContent ELSE content,
                 finishReason |-> IF resp.finish = "" THEN "unknown"
                                  ELSE resp.finish,
                 model |-> g.model]
     IN IF /\ res.finishReason = "length"
           /\ g.useFallback
           /\ g.model # FallbackModel
           /\ g.retryCount = 0
        THEN GenFallback(r, [present |-> TRUE, result |-> res,
                             originalMaxTokens |-> maxTokens],
                         Min(TokenCeiling, maxTokens + TokenIncrement))
        ELSE GenReturn(r, res)
  /\ UNCHANGED <<config, trace, clock, cache, running, formData, responseSent, sent,
                 cachedRoute, mail, delivered, notification>>

\* FetchHttpError retrying a 429 only.
FetchHttpError_Only429(r, status, bodyHasNetCode) ==
  /\ running = 0
  /\ pc[r] = "fetching"
  /\ IF /\ gen[r].retryCount < OpenAIMaxRetries
        /\ (status = 429 \/ bodyHasNetCode)
     THEN GenRetry(r, HttpFailure(status))
     ELSE GenRaise(r, ApiError(status))
  /\ UNCHANGED <<config, trace, clock, cache, running, formData, responseSent, sent,
                 cachedRoute, mail, delivered, notification>>

\* The service answers with an error status.  A 429 or a status >= 500 is
\* retried while retries remain; otherwise the Error is thrown into the catch
\* block of the same frame, which retries when the message (status and error
\* body) contains ECONNRESET, ETIMEDOUT or ENOTFOUND.
FetchHttpError(r, status, bodyHasNetCode) ==
  /\ running = 0
  /\ pc[r] = "fetching"
  /\ IF /\ gen[r].retryCount < OpenAIMaxRetries
        /\ (status = 429 \/ status >= 500 \/ bodyHasNetCode)
     THEN GenRetry(r, HttpFailure(status))
     ELSE GenRaise(r, ApiError(status))
  /\ UNCHANGED <<config, trace, clock, cache, running, formData, responseSent, sent,
                 cachedRoute, mail, delivered, notification>>

\* The AbortController fires: retried while retries remain; else one call of
\* the fallback model when this frame is a first attempt; else a timeout error.
FetchAbort(r) ==
  /\ running = 0
  /\ pc[r] = "fetching"
  /\ IF gen[r].retryCount < OpenAIMaxRetries
     THEN GenRetry(r, "abort")
     ELSE IF /\ gen[r].useFallback
             /\ gen[r].model # FallbackModel
             /\ gen[r].retryCount = 0
     THEN GenFallback(r, gen[r].outer, maxTokens)
     ELSE GenRaise(r, "timeout")
  /\ UNCHANGED <<config, trace, clock, cache, running, formData, responseSent, sent,
                 cachedRoute, mail, delivered, notification>>

\* fetch rejects with another error; hasNetCode: its message contains
\* ECONNRESET, ETIMEDOUT or ENOTFOUND.
FetchNetError(r, hasNetCode) ==
  /\ running = 0
  /\ pc[r] = "fetching"
  /\ IF gen[r].retryCount < OpenAIMaxRetries /\ hasNetCode
     THEN GenRetry(r, "net")
     ELSE GenRaise(r, "network")
  /\ UNCHANGED <<config, trace, clock, cache, running, formData, responseSent, sent,
                 cachedRoute, mail, delivered, notification>>

\* GenBackoffDone calling generateRoute again with the retryCount it had.
GenBackoffDone_SameCount(r) ==
  /\ running = 0
  /\ pc[r] = "gen_backoff"
  /\ gen' = [gen EXCEPT ![r].max_tokens = maxTokens, ![r].fetches = @ + 1,
                         ![r].failed = <<>>, ![r].wait = 0]
  /\ pc' = [pc EXCEPT ![r] = "fetching"]
  /\ UNCHANGED <<config, trace, clock, cache, maxTokens, running, formData,
                 responseSent, sent, cachedRoute, aiResult, mail, error,
                 delivered, calls, notification>>

\* The backoff delay elapses: generateRoute calls itself with retryCount + 1.
GenBackoffDone(r) ==
  /\ running = 0
  /\ pc[r] = "gen_backoff"
  /\ gen' = [gen EXCEPT ![r].retryCount = @ + 1, ![r].max_tokens = maxTokens,
                         ![r].fetches = @ + 1, ![r].wait = 0]
  /\ pc' = [pc EXCEPT ![r] = "fetching"]
  /\ UNCHANGED <<config, trace, clock, cache, maxTokens, running, formData,
                 responseSent, sent, cachedRoute, aiResult, mail, error,
                 delivered, calls, notification>>

\* AfterGenerate going on to the mail without storing the route.
AfterGenerate_NoSet(r) ==
  /\ running = 0
  /\ pc[r] = "gen_returned"
  /\ pc' = [pc EXCEPT ![r] = "deliver_call"]
  /\ running' = r
  /\ UNCHANGED <<config, trace, clock, cache, maxTokens, formData, responseSent,
                 sent, cachedRoute, gen, aiResult, mail, error, delivered,
                 calls, notification>>

\* generateRoute resolved: the continuation checks the content and stores the
\* route in the cache.
AfterGenerate(r) ==
  /\ running = 0
  /\ pc[r] = "gen_returned"
  /\ IF aiResult[r].content = <<>>
     THEN /\ error' = [error EXCEPT ![r] = "empty"]
          /\ pc' = [pc EXCEPT ![r] = "raised"]
          /\ UNCHANGED <<cache, calls, running>>
     ELSE /\ cache' = CacheSet(cache, formData[r], aiResult[r].content,
                               [model |-> aiResult[r].model,
                                finishReason |-> aiResult[r].finishReason],
                               clock)
          /\ calls' = Count(r, "set")
          /\ pc' = [pc EXCEPT ![r] = "deliver_call"]
          /\ running' = r
          /\ UNCHANGED error
  /\ UNCHANGED <<config, trace, clock, maxTokens, formData, responseSent, sent,
                 cachedRoute, gen, aiResult, mail, delivered, notification>>

\* ... and mails the route; from here on only route is used, which the
\* emailData of the call holds.
DeliverCall(r) ==
  /\ running = r
  /\ pc[r] = "deliver_call"
  /\ sendRouteEmail(r, aiResult[r].content)
  /\ running' = 0
  /\ aiResult' = [aiResult EXCEPT ![r] = NoResult]
  /\ UNCHANGED <<config, trace, clock, cache, maxTokens, formData, responseSent,
                 sent, cachedRoute, gen, delivered, notification>>

\* ------------------------------------------- the inline pipeline, server.js
\* if (!city || !email): the form is acknowledged and dropped.
Check(r) ==
  /\ running = r
  /\ pc[r] = "check"
  /\ IF IsNull(formData[r].city) \/ IsNull(formData[r].email)
     THEN /\ sendResponse(r, TRUE, ACCEPTED)
          /\ pc' = [pc EXCEPT ![r] = "done"]
          /\ running' = 0
     ELSE /\ pc' = [pc EXCEPT ![r] = "ack"]
          /\ UNCHANGED <<running, responseSent, sent>>
  /\ UNCHANGED <<config, trace, clock, cache, maxTokens, formData, cachedRoute, gen,
                 aiResult, mail, error, delivered, calls, notification>>

\* The detached loop starts: retryCount = 0, the first request to the service
\* (model gpt-4o-mini, max_tokens 4000); the handler returns.
InlineSpawn(r) ==
  /\ program = "inline"
  /\ running = r
  /\ pc[r] = "spawn"
  /\ gen' = [gen EXCEPT ![r] = Fetch(DefaultModel, FALSE, 0, NoFrame, 4000, 1)]
  /\ pc' = [pc EXCEPT ![r] = "i_fetching"]
  /\ running' = 0
  /\ UNCHANGED <<config, trace, clock, cache, maxTokens, formData, responseSent,
                 sent, cachedRoute, aiResult, mail, error, delivered, calls,
                 notification>>

\* The request settles.  Success: the plan is mailed through Resend when a key
\* is configured, and the loop ends.  An error status, an abort or another
\* error: retryCount++, and the loop goes on while retryCount <= MAX_RETRIES.
InlineOutcomes == {"ok", "status", "abort", "error"}
InlineFetchDone(r, outcome) ==
  /\ running = 0
  /\ pc[r] = "i_fetching"
  /\ IF outcome = "ok"
     THEN /\ calls' = Count(r, "deliver")
          /\ IF resendKey
             THEN /\ pc' = [pc EXCEPT ![r] = "i_mailing"]
                  /\ mail' = [mail EXCEPT ![r] =
                                [present |-> TRUE, to |-> formData[r].email,
                                 route |-> Doc(r, DefaultModel), retryCount |-> 0,
                                 wait |-> 0]]
             ELSE /\ pc' = [pc EXCEPT ![r] = "done"]
                  /\ UNCHANGED mail
          /\ gen' = [gen EXCEPT ![r] = NoGen]
          /\ UNCHANGED error
     ELSE IF gen[r].retryCount + 1 <= MAX_RETRIES
     THEN /\ gen' = [gen EXCEPT ![r].retryCount = @ + 1]
          /\ pc' = [pc EXCEPT ![r] = "i_delay"]
          /\ UNCHANGED <<mail, error, calls>>
     ELSE /\ gen' = [gen EXCEPT ![r] = NoGen]
          /\ error' = [error EXCEPT ![r] =
                         IF outcome = "abort" THEN "timeout" ELSE "api"]
          /\ pc' = [pc EXCEPT ![r] = "done"]
          /\ UNCHANGED <<mail, calls>>
  /\ UNCHANGED <<config, trace, clock, cache, maxTokens, running, formData,
                 responseSent, sent, cachedRoute, aiResult, delivered,
                 notification>>

\* The 2000 ms pause before a retry ends: the next request is issued.
InlineDelayDone(r) ==
  /\ running = 0
  /\ pc[r] = "i_delay"
  /\ gen' = [gen EXCEPT ![r].fetches = @ + 1]
  /\ pc' = [pc EXCEPT ![r] = "i_fetching"]
  /\ UNCHANGED <<config, trace, clock, cache, maxTokens, running, formData,
                 responseSent, sent, cachedRoute, aiResult, mail, error,
                 delivered, calls, notification>>

\* InlineMailDone leaving success false when the mail failed, so that the
\* loop asks for another generation.
InlineMailDone_Regenerate(r, ok) ==
  /\ running = 0
  /\ pc[r] = "i_mailing"
  /\ delivered' = [delivered EXCEPT ![r] = ok]
  /\ mail' = [mail EXCEPT ![r] = NoMail]
  /\ IF ok
     THEN /\ pc' = [pc EXCEPT ![r] = "done"]
          /\ UNCHANGED gen
     ELSE /\ pc' = [pc EXCEPT ![r] = "i_fetching"]
          /\ gen' = [gen EXCEPT ![r] =
                        Fetch(DefaultModel, FALSE, 1, NoFrame, 4000, 2)]
  /\ UNCHANGED <<config, trace, clock, cache, maxTokens, running, formData,
                 responseSent, sent, cachedRoute, aiResult, error, calls,
                 notification>>

\* sendEmailViaResend settles; it never throws, so success = true either way.
InlineMailDone(r, ok) ==
  /\ running = 0
  /\ pc[r] = "i_mailing"
  /\ delivered' = [delivered EXCEPT ![r] = ok]
  /\ mail' = [mail EXCEPT ![r] = NoMail]
  /\ pc' = [pc EXCEPT ![r] = "done"]
  /\ UNCHANGED <<config, trace, clock, cache, maxTokens, running, formData,
                 responseSent, sent, cachedRoute, gen, aiResult, error, calls,
                 notification>>

\* ------------------------------------- the cache service called directly
\* The methods of the exported CacheService instance, called one after the
\* other by a client of the module (the route handler calls get and set, the
\* health endpoint getStats, the shutdown handler clear), while the clock
\* advances and the periodic check runs.
handlers ==
  <<maxTokens, running, pc, formData, responseSent, sent, cachedRoute, gen,
    aiResult, mail, error, delivered, notification, calls>>
\* the route documents stored
Docs == {Doc(1, DefaultModel), Doc(2, DefaultModel)}
Meta == [model |-> DefaultModel, finishReason |-> "stop"]
\* one call: the method, its arguments, the time it was made, what the store
\* held under the key of the arguments then, and the value returned
Call(op, d, route, found, value) ==
  [op |-> op, args |-> d, route |-> route, at |-> clock, found |-> found,
   value |-> value]
Found(d) == IF KeyOf(d) = TypeError THEN NoEntry ELSE cache[KeyOf(d)]

\* cacheService.get(...)
ApiGet(d) ==
  /\ Len(trace) < MaxCalls
  /\ trace' = Append(trace, Call("get", d, <<>>, Found(d),
                                 CacheGet(cache, d, clock)))
  /\ cache' = CacheAfterGet(cache, d, clock)
  /\ UNCHANGED <<config, clock, handlers>>

\* cacheService.set(..., route, metadata)
ApiSet(d, route) ==
  /\ Len(trace) < MaxCalls
  /\ trace' = Append(trace, Call("set", d, route, Found(d),
                                 [ok |-> CacheSetResult(d)]))
  /\ cache' = CacheSet(cache, d, route, Meta, clock)
  /\ UNCHANGED <<config, clock, handlers>>

\* cacheService.delete(...)
ApiDelete(d) ==
  /\ Len(trace) < MaxCalls
  /\ trace' = Append(trace, Call("delete", d, <<>>, Found(d),
                                 [ok |-> CacheDeleteResult(cache, d)]))
  /\ cache' = CacheDelete(cache, d)
  /\ UNCHANGED <<config, clock, handlers>>

\* cacheService.clear()
ApiClear ==
  /\ Len(trace) < MaxCalls
  /\ trace' = Append(trace, Call("clear", NoData, <<>>, NoEntry,
                                 [ok |-> enabled]))
  /\ cache' = CacheClear(cache)
  /\ UNCHANGED <<config, clock, handlers>>

\* cacheService.getStats()
ApiStats ==
  /\ Len(trace) < MaxCalls
  /\ trace' = Append(trace, Call("getStats", NoData, <<>>, NoEntry,
                                 CacheStats(cache)))
  /\ UNCHANGED <<config, clock, cache, handlers>>

\* cacheService.generateKey(...): the key, or the TypeError thrown
ApiKey(d) ==
  /\ Len(trace) < MaxCalls
  /\ trace' = Append(trace, Call("generateKey", d, <<>>, NoEntry, KeyOf(d)))
  /\ UNCHANGED <<config, clock, cache, handlers>>

\* ------------------------------------------------------------------- spec
Next ==
  \/ \E r \in Reqs : \E d \in PayloadsOf(r), throws \in BOOLEAN :
       Receive(r, d, throws)
  \/ \E r \in Reqs : OuterCatch(r)
  \/ \E r \in Reqs : Validate(r)
  \/ \E r \in Reqs : Lookup(r)
  \/ \E r \in Reqs : Ack(r)
  \/ \E r \in Reqs : SpawnHit(r)
  \/ \E r \in Reqs : SpawnMiss(r)
  \/ \E r \in Reqs, resp \in OkResponses : FetchOk(r, resp)
  \/ \E r \in Reqs, st \in {400, 429, 500}, b \in BOOLEAN :
       FetchHttpError(r, st, b)
  \/ \E r \in Reqs : FetchAbort(r)
  \/ \E r \in Reqs, b \in BOOLEAN : FetchNetError(r, b)
  \/ \E r \in Reqs : GenBackoffDone(r)
  \/ \E r \in Reqs : AfterGenerate(r)
  \/ \E r \in Reqs : DeliverCall(r)
  \/ \E r \in Reqs, o \in MailOutcomes : SendDone(r, o)
  \/ \E r \in Reqs : MailBackoffDone(r)
  \/ \E r \in Reqs : CatchHit(r)
  \/ \E r \in Reqs : CatchMiss(r)
  \/ \E r \in Reqs, ok \in BOOLEAN : NotifyDone(r, ok)
  \/ \E r \in Reqs : Check(r)
  \/ \E r \in Reqs : InlineSpawn(r)
  \/ \E r \in Reqs, o \in InlineOutcomes : InlineFetchDone(r, o)
  \/ \E r \in Reqs : InlineDelayDone(r)
  \/ \E r \in Reqs, ok \in BOOLEAN : InlineMailDone(r, ok)
  \/ Tick
  \/ Sweep

Spec == Init /\ [][Next]_vars

\* The cache service on its own, in the default deployment and with the
\* cache disabled.
CacheInit ==
  Init /\ program = "router" /\ emailFrom /\ smtpUser /\ transporter
CacheNext ==
  \/ \E d \in CacheArgs : ApiGet(d)
  \/ \E d \in CacheArgs, route \in Docs : ApiSet(d, route)
  \/ \E d \in CacheArgs : ApiDelete(d)
  \/ ApiClear
  \/ ApiStats
  \/ \E d \in KeyArgs : ApiKey(d)
  \/ Tick
  \/ Sweep
CacheSpec == CacheInit /\ [][CacheNext]_vars

\* The steps the event loop and the settling of requests in flight bring
\* about; the arrival of a request is the caller's.
Progress(r) ==
  \/ OuterCatch(r) \/ Validate(r) \/ Lookup(r) \/ Ack(r)
  \/ SpawnHit(r) \/ SpawnMiss(r)
  \/ \E resp \in OkResponses : FetchOk(r, resp)
  \/ \E st \in {400, 429, 500}, b \in BOOLEAN : FetchHttpError(r, st, b)
  \/ FetchAbort(r)
  \/ \E b \in BOOLEAN : FetchNetError(r, b)
  \/ GenBackoffDone(r) \/ AfterGenerate(r) \/ DeliverCall(r)
  \/ \E o \in MailOutcomes : SendDone(r, o)
  \/ MailBackoffDone(r) \/ CatchHit(r) \/ CatchMiss(r)
  \/ \E ok \in BOOLEAN : NotifyDone(r, ok)
  \/ Check(r) \/ InlineSpawn(r)
  \/ \E o \in InlineOutcomes : InlineFetchDone(r, o)
  \/ InlineDelayDone(r)
  \/ \E ok \in BOOLEAN : InlineMailDone(r, ok)

\* Every callback that is ready runs, and every request in flight settles
\* (the generation request by its abort timer at the latest).
FairSpec == Spec /\ \A r \in Reqs : WF_vars(Progress(r))

\* ----------------------------------------------------------------- claims
Key(r) == KeyOf(formData[r])
\* the handler of r is past parsing and did not throw
Threw(r) ==
  \/ pc[r] = "threw"
  \/ sent[r] # <<>> /\ sent[r][1].message = ACCEPTED_LATER
MissingRequired(r) == IsNull(formData[r].city) \/ IsNull(formData[r].email)
\* the handler of r has returned
Returned(r) ==
  pc[r] \notin {"idle", "threw", "validate", "check", "lookup", "ack", "spawn"}
\* r went down the cache-miss path of the route handler
MissPath(r) == program = "router" /\ calls[r].generate = 1

\* C1: every response written to a caller has status 200 and success = true,
\* and a handler that has returned has written one -- on the validation
\* failure, hit, miss and exception paths of both handlers.
C1_AlwaysSuccess ==
  \A r \in Reqs :
    /\ \A i \in 1..Len(sent[r]) :
         sent[r][i].status = 200 /\ sent[r][i].success = TRUE
    /\ Returned(r) => sent[r] # <<>>
C1_Witness ==
  \E r, q \in Reqs :
    /\ pc[r] = "done" /\ sent[r] # <<>> /\ sent[r][1].message = ACCEPTED_LATER
    /\ pc[q] = "done" /\ sent[q] # <<>> /\ sent[q][1].message = PROCESSING
    /\ error[q] # "none"

\* C2: a generation request or a mail of a request is issued only after its
\* acknowledgment was written, and when the handler returns after the
\* acknowledgment the background continuation is still pending.
C2_Issued(r) ==
  calls[r].generate > 0 \/ calls[r].deliver > 0 \/ gen[r].active
    \/ mail[r].present
C2_AckFirst ==
  [][\A r \in Reqs :
       /\ C2_Issued(r)' => responseSent'[r] /\ sent'[r] # <<>>
       /\ (pc[r] = "spawn" /\ pc'[r] # "spawn")
            => running' = 0 /\ pc'[r] # "done" /\ sent[r] # <<>>]_vars
C2_Witness ==
  \E r \in Reqs :
    pc[r] = "fetching" /\ running = 0 /\ Len(sent[r]) = 1 /\ gen[r].active

\* C3: a request without destination or without recipient gets the generic
\* "accepted" acknowledgment and nothing else happens for it: no cache
\* lookup, no generation, no delivery, no notification.
C3_MissingFieldStops ==
  \A r \in Reqs :
    (pc[r] # "idle" /\ ~Threw(r) /\ MissingRequired(r)) =>
      /\ calls[r] = NoCalls
      /\ ~gen[r].active /\ ~mail[r].present
      /\ pc[r] \in {"validate", "check", "done"}
      /\ pc[r] = "done" =>
           sent[r] = <<[status |-> 200, success |-> TRUE, message |-> ACCEPTED]>>
C3_Witness ==
  \E r \in Reqs :
    /\ program = "router" /\ pc[r] = "done"
    /\ IsNull(formData[r].email) /\ ~IsNull(formData[r].city)
    /\ Len(sent[r]) = 1 /\ sent[r][1].message = ACCEPTED

\* C4: a lookup made while an unexpired entry is stored under the request's
\* fingerprint returns that entry; the request then mails exactly the cached
\* route and never calls the generation client.
C4_HitUsesCache ==
  [][\A r \in Reqs :
       /\ (pc[r] = "lookup" /\ pc'[r] = "ack"
             /\ cache[Key(r)].present /\ cache[Key(r)].t >= clock)
            => cachedRoute'[r] = cache[Key(r)]
       /\ cachedRoute'[r].present =>
            /\ calls'[r].generate = 0 /\ ~gen'[r].active
            /\ mail'[r].present => mail'[r].route = cachedRoute'[r].route]_vars
C4_Witness ==
  \E r \in Reqs :
    /\ pc[r] = "sending" /\ cachedRoute[r].present
    /\ mail[r].present /\ mail[r].route = cachedRoute[r].route
    /\ calls[r].generate = 0

\* C5: on the miss path the cache is written only by a request whose
\* generateRoute has returned, with the returned content; the mail is called
\* only after cacheService.set; after generateRoute raised there is neither.
C5_Order ==
  [][/\ \A k \in AllKeys :
          (cache'[k] # cache[k] /\ cache'[k].present) =>
            \E r \in Reqs :
              /\ pc[r] = "gen_returned" /\ aiResult[r].present /\ Key(r) = k
              /\ cache'[k].route = aiResult[r].content
              /\ calls'[r].set = 1 /\ calls[r].deliver = 0
     /\ \A r \in Reqs :
          /\ (MissPath(r)' /\ calls'[r].deliver > 0) => calls'[r].set = 1
          /\ calls'[r].set > 0 => MissPath(r)'
          /\ error'[r] \in GenFailures =>
               calls'[r].set = 0 /\ calls'[r].deliver = 0 /\ ~mail'[r].present]_vars
C5_Witness ==
  \E r \in Reqs :
    /\ pc[r] = "sending" /\ MissPath(r)
    /\ calls[r].set = 1 /\ calls[r].deliver = 1
    /\ cache[Key(r)].present /\ cache[Key(r)].route = mail[r].route

\* C6 as stated: with the cache enabled, when the delivery of a miss-path
\* request completes an entry is stored under the request's fingerprint.
C6_Original ==
  [][\A r \in Reqs :
       (enabled /\ MissPath(r) /\ ~delivered[r] /\ delivered'[r]) =>
         cache'[Key(r)].present]_vars
\* C6 amended: a miss-path continuation always ends; when neither generation
\* nor delivery failed it has by then called cacheService.set and the mail is
\* delivered; and with the cache enabled that call stored the returned route
\* under the request's fingerprint, to expire CacheTTL later.
C6_Eventually ==
  /\ \A r \in Reqs :
       MissPath(r) ~>
         (pc[r] = "done"
            /\ (error[r] # "none" \/ (delivered[r] /\ calls[r].set = 1)))
  /\ [][\A r \in Reqs :
          (enabled /\ calls[r].set = 0 /\ calls'[r].set = 1) =>
            /\ cache'[Key(r)].present
            /\ cache'[Key(r)].route = aiResult[r].content
            /\ cache'[Key(r)].t = clock + CacheTTL]_vars
C6_Witness ==
  \E r \in Reqs :
    /\ MissPath(r) /\ pc[r] = "done" /\ delivered[r] /\ calls[r].set = 1
    /\ cache[Key(r)].present

\* C7 as stated: a miss-path request that ended in failure has had exactly
\* one notification call.
C7_Original ==
  \A r \in Reqs :
    (MissPath(r) /\ pc[r] = "done" /\ error[r] # "none") => calls[r].notify = 1
\* C7 amended: ... exactly one notification call when a sender (EMAIL_FROM or
\* the SMTP user) is configured and none otherwise; after the catch block the
\* continuation only waits for the notification and ends.
C7_NotifyOnce ==
  \A r \in Reqs :
    /\ calls[r].notify <= 1 /\ calls[r].notifyMail <= calls[r].notify
    /\ calls[r].notify = 1 => MissPath(r) /\ pc[r] \in {"notifying", "done"}
    /\ (MissPath(r) /\ pc[r] \in {"notifying", "done"} /\ error[r] # "none") =>
         calls[r].notify = (IF emailFrom \/ smtpUser THEN 1 ELSE 0)
C7_Witness ==
  \E r \in Reqs :
    /\ MissPath(r) /\ pc[r] = "done" /\ error[r] = "smtp"
    /\ calls[r].notify = 1 /\ calls[r].notifyMail = 1

\* C8: every request whose delivery failed fatally has had a notification
\* call (with a sender configured), on the hit path as on the miss path.
C8_DeliveryFailureNotified ==
  \A r \in Reqs :
    (program = "router" /\ (emailFrom \/ smtpUser) /\ pc[r] = "done"
       /\ error[r] \in MailErrors) => calls[r].notify >= 1

\* C9: the route handler calls generateRoute at most once and sendRouteEmail
\* at most once for a request, whatever their outcomes.
C9_NoOrchestratorRetry ==
  \A r \in Reqs :
    program = "router" => calls[r].generate <= 1 /\ calls[r].deliver <= 1
C9_Witness ==
  \E r, q \in Reqs :
    /\ MissPath(r) /\ pc[r] = "done" /\ error[r] = "smtp"
    /\ calls[r].generate = 1 /\ calls[r].deliver = 1
    /\ MissPath(q) /\ pc[q] = "done" /\ error[q] \in GenFailures
    /\ calls[q].generate = 1 /\ calls[q].deliver = 0

\* C10: no step of a continuation after its cacheService.set changes the
\* cache (a failing delivery, the catch block and the notification included),
\* and an entry leaves the cache only once its expiry instant has passed.
C10_FailureKeepsCache ==
  [][/\ \A r \in Reqs :
          (calls[r].set = 1 /\ pc'[r] # pc[r]) => cache' = cache
     /\ \A k \in AllKeys :
          (cache[k].present /\ ~cache'[k].present) => cache[k].t < clock]_vars
C10_Witness ==
  \E r \in Reqs :
    /\ MissPath(r) /\ pc[r] = "done" /\ error[r] = "smtp" /\ calls[r].set = 1
    /\ cache[Key(r)].present /\ cache[Key(r)].route = Doc(r, DefaultModel)

\* C11: a notification is never retried: a request has at most one
\* sendErrorNotification call, that call makes at most one sendMail, and once
\* the notification has ended (sent, failed or skipped) the continuation of
\* the request takes no further step.
C11_NoNotifyRetry ==
  [][\A r \in Reqs :
       /\ calls'[r].notify <= 1
       /\ calls'[r].notifyMail <= calls'[r].notify
       /\ notification[r] \in {"sent", "failed", "skipped"} =>
            /\ pc[r] = "done" /\ pc'[r] = "done"
            /\ calls'[r] = calls[r]
            /\ notification'[r] = notification[r]]_vars
C11_Witness ==
  \E r \in Reqs :
    /\ notification[r] = "failed" /\ transporter /\ pc[r] = "done"
    /\ calls[r].notify = 1 /\ calls[r].notifyMail = 1

\* C12: sendErrorNotification never rejects: without EMAIL_FROM it returns at
\* once, with a null transporter or a failing transport the error is caught
\* inside it, and in every case the continuation ends normally with the
\* original error still the only one recorded.
C12_NotifyNeverThrows ==
  \A r \in Reqs :
    /\ notification[r] # "rejected"
    /\ calls[r].notify = 1 =>
         /\ notification[r] # "none"
         /\ ~emailFrom => notification[r] = "skipped"
         /\ (emailFrom /\ ~transporter) => notification[r] = "failed"
         /\ (emailFrom /\ transporter) =>
              notification[r] \in {"sending", "sent", "failed"}
    /\ notification[r] \in {"sent", "failed", "skipped"} =>
         pc[r] = "done" /\ error[r] \in GenErrors \cup MailErrors
C12_Witness ==
  \E r \in Reqs :
    /\ ~transporter /\ notification[r] = "failed" /\ pc[r] = "done"
    /\ calls[r].notify = 1 /\ calls[r].notifyMail = 0

\* every earlier request of the frame of r failed with a 429 or a status >= 500
OnlyStatusFailures(r) ==
  \A i \in 1..Len(gen[r].failed) : gen[r].failed[i] \in {"http429", "http500"}
\* every earlier request of the frame of r timed out
OnlyTimeouts(r) ==
  \A i \in 1..Len(gen[r].failed) : gen[r].failed[i] = "abort"

C14_FatalStatus ==
  \A r \in Reqs :
    gen[r].active =>
      \A i \in 1..Len(gen[r].failed) : gen[r].failed[i] # "http400"

C16_Original ==
  \A r \in Reqs :
    (gen[r].active /\ gen[r].model = FallbackModel /\ gen[r].outer.present) =>
      gen[r].retryCount = 0
\* C16 amended: a generateRoute call of the handler makes at most one fallback
\* call, with fallback switched off in it; that call is made from a first
\* attempt of the primary model only, and a truncated first attempt always
\* makes it; the fallback call issues between 1 and maxRetries+1 requests;
\* a retry or the fallback call never switches model.
C16_OneFallbackCall ==
  [][\A r \in Reqs :
       program = "router" =>
         /\ calls'[r].fallback <= 1
         /\ calls'[r].fallback > calls[r].fallback =>
              /\ gen[r].model = DefaultModel /\ gen[r].useFallback
              /\ gen[r].retryCount = 0
              /\ gen'[r].model = FallbackModel /\ ~gen'[r].useFallback
              /\ gen'[r].retryCount = 0
              /\ gen'[r].outer.present =>
                   gen'[r].outer.result.finishReason = "length"
         /\ (pc[r] = "fetching" /\ gen[r].model = DefaultModel
               /\ gen[r].retryCount = 0 /\ pc'[r] = "gen_returned") =>
              aiResult'[r].finishReason # "length"
         /\ (gen[r].active /\ gen[r].model = FallbackModel) =>
              /\ gen[r].retryCount <= OpenAIMaxRetries
              /\ gen[r].fetches <= 1 + OpenAIMaxRetries + 1
         /\ (gen[r].active /\ gen'[r].active
               /\ (gen[r].retryCount > 0 \/ gen[r].model = FallbackModel)) =>
              gen'[r].model = gen[r].model]_vars
C16_Witness ==
  \E r \in Reqs :
    /\ pc[r] = "fetching" /\ gen[r].model = FallbackModel
    /\ gen[r].outer.present /\ gen[r].retryCount = OpenAIMaxRetries
    /\ calls[r].fallback = 1

\* C17: when the fallback call made after a truncation returns a truncated
\* result, generateRoute returns the truncated result of the primary model.
C17_ReturnsOriginal ==
  [][\A r \in Reqs :
       (pc[r] = "fetching" /\ gen[r].outer.present /\ pc'[r] = "gen_returned"
          /\ aiResult'[r].finishReason = "length") =>
         aiResult'[r] = gen[r].outer.result]_vars

\* C18: the fallback call made after a truncation never makes generateRoute
\* raise: when it ends, generateRoute returns either a result of the fallback
\* model or, the call having failed, the truncated result of the primary
\* model, and the client's token budget is back to what it was.
C18_FallbackFailureSwallowed ==
  [][\A r \in Reqs :
       (pc[r] = "fetching" /\ gen[r].outer.present /\ ~gen'[r].active) =>
         /\ pc'[r] = "gen_returned"
         /\ error'[r] = error[r]
         /\ \/ aiResult'[r].model = FallbackModel
            \/ aiResult'[r] = gen[r].outer.result
         /\ maxTokens' = gen[r].outer.originalMaxTokens]_vars
C18_Witness ==
  \E r \in Reqs :
    /\ pc[r] = "gen_returned" /\ calls[r].fallback = 1
    /\ aiResult[r].model = DefaultModel /\ aiResult[r].finishReason = "length"
    /\ error[r] = "none"

\* C19: the fallback call made after a truncation sends
\* min(ceiling, budget + increment) as max_tokens, and that is more than the
\* budget the truncated primary request was sent with.
C19_LargerBudget ==
  \A r \in Reqs :
    (gen[r].active /\ gen[r].outer.present /\ gen[r].retryCount = 0) =>
      /\ gen[r].max_tokens =
           Min(TokenCeiling, gen[r].outer.originalMaxTokens + TokenIncrement)
      /\ gen[r].max_tokens > gen[r].outer.originalMaxTokens

\* C20: when every attempt of the primary model timed out, generateRoute does
\* not raise the timeout error itself: it calls the fallback model, and only
\* that call's failure ends it.
C20_TimeoutFallback ==
  [][\A r \in Reqs :
       (program = "router" /\ pc[r] = "fetching" /\ OnlyTimeouts(r)
          /\ gen[r].useFallback /\ gen[r].model # FallbackModel
          /\ pc'[r] = "raised") =>
         error'[r] # "timeout"]_vars

\* C21: every generateRoute call of the handler ends, by returning a result
\* or by rejecting, whatever the requests to the service do (each of them
\* settles: it is answered, aborted by the timer or fails), and it issues at
\* most 2 * (maxRetries + 1) requests, primary and fallback model together.
C21_Terminates ==
  /\ \A r \in Reqs :
       (program = "router" /\ gen[r].active)
         ~> (~gen[r].active /\ pc[r] \in {"gen_returned", "raised"})
  /\ [](\A r \in Reqs :
          (program = "router" /\ gen[r].active) =>
            /\ gen[r].fetches >= 1
            /\ gen[r].fetches <= 2 * (OpenAIMaxRetries + 1))
\* one call rejected after its retries while another, after a truncated
\* answer, is on the last request the fallback model can get
C21_Witness ==
  \E r, q \in Reqs :
    /\ program = "router"
    /\ pc[r] = "raised" /\ error[r] = "timeout" /\ ~gen[r].active
    /\ pc[q] = "fetching"
    /\ gen[q].model = FallbackModel
    /\ gen[q].fetches = OpenAIMaxRetries + 2

\* C29: while a sendRouteEmail call is sending, the sendMail calls made so
\* far are the k retryable failures before it plus the one in flight
\* (k + 1 attempts, k <= maxRetries); a success ends the call there with
\* { success: true }; a failure is retried only while k < maxRetries, so the
\* attempt after maxRetries retryable failures is the last one: the call then
\* succeeds or throws after exactly maxRetries + 1 attempts.
C29_RetryThenSettle ==
  [][\A r \in Reqs :
       (program = "router" /\ pc[r] = "sending") =>
         LET m == mail[r]
             k == Len(m.failed)
         IN /\ \A i \in 1..k : m.failed[i] = "retryable"
            /\ k = m.retryCount
            /\ k <= EmailMaxRetries
            /\ m.attempts = k + 1
            /\ (delivered'[r] =>
                  pc'[r] = "done" /\ ~mail'[r].present /\ error'[r] = error[r])
            /\ (pc'[r] = "mail_backoff" =>
                  /\ k < EmailMaxRetries
                  /\ mail'[r].failed = Append(m.failed, "retryable")
                  /\ mail'[r].attempts = m.attempts)
            /\ (k = EmailMaxRetries /\ pc'[r] # "sending" =>
                  \/ delivered'[r] /\ pc'[r] = "done"
                  \/ /\ pc'[r] = "raised" /\ error'[r] = "smtp"
                     /\ ~delivered'[r] /\ ~mail'[r].present)]_vars
\* the sendMail call after maxRetries retryable failures is in flight
C29_Witness ==
  \E r \in Reqs :
    /\ program = "router"
    /\ pc[r] = "sending"
    /\ mail[r].attempts = EmailMaxRetries + 1
    /\ Len(mail[r].failed) = EmailMaxRetries
    /\ \A i \in 1..Len(mail[r].failed) : mail[r].failed[i] = "retryable"

C25_SameOutcome ==
  \A r, q \in Reqs :
    ( /\ program = "router"
      /\ pc[r] = "done" /\ pc[q] = "done"
      /\ Key(r) = Key(q)
      /\ validateFormData(formData[r]) /\ validateFormData(formData[q])
      /\ calls[r].deliver = 1 /\ calls[q].deliver = 1
      /\ delivered[r] = delivered[q]
      /\ error[r] = error[q]
      /\ notification[r] \notin {"sending"} /\ notification[q] \notin {"sending"} )
    => /\ sent[r] = sent[q]
       /\ calls[r].deliver = calls[q].deliver
       /\ calls[r].notify = calls[q].notify

\* C28: a stored entry changes only by leaving the store once its expiry
\* instant has passed or by being replaced with the whole value object of a
\* cacheService.set call; a lookup that hits returns the stored entry and
\* leaves it as it is, and the handler's reference to it is only dropped,
\* never written through, by the steps of the cache-hit delivery.
C28_NeverMutated ==
  [][/\ \A k \in AllKeys :
          cache'[k] # cache[k] =>
            \/ cache'[k] = NoEntry /\ Expired(cache[k], clock)
            \/ \E r \in Reqs :
                 /\ pc[r] = "gen_returned" /\ k = Key(r)
                 /\ cache'[k] =
                      Entry(aiResult[r].content, formData[r],
                            [model |-> aiResult[r].model,
                             finishReason |-> aiResult[r].finishReason], clock)
     /\ \A r \in Reqs :
          /\ (pc[r] = "lookup" /\ pc'[r] = "ack" /\ cachedRoute'[r].present) =>
               /\ cachedRoute'[r] = cache[Key(r)]
               /\ cache'[Key(r)] = cache[Key(r)]
          /\ pc[r] # "lookup" => cachedRoute'[r] \in {cachedRoute[r], NoEntry}]_vars
\* a second lookup has returned the entry another request stored, and the
\* entry is in the store as that request wrote it
C28_Witness ==
  \E r, q \in Reqs :
    /\ r # q
    /\ calls[r].set = 1
    /\ cachedRoute[q].present /\ pc[q] \in {"ack", "spawn", "sending"}
    /\ cachedRoute[q] = cache[Key(q)]
    /\ cachedRoute[q].route = Doc(r, DefaultModel)
    /\ cachedRoute[q].t = CacheTTL

\* ------------------------------------------------ claims on the cache service
Calls == DOMAIN trace
SameKey(i, j) ==
  /\ KeyOf(trace[i].args) # TypeError
  /\ KeyOf(trace[i].args) = KeyOf(trace[j].args)
\* call j is the last set under the key of call i before it
LastSet(j, i) ==
  /\ j < i /\ trace[j].op = "set" /\ SameKey(j, i)
  /\ \A m \in (j + 1)..(i - 1) : ~(trace[m].op = "set" /\ SameKey(m, i))

\* C22: with the cache enabled, a get made right after a set under the same
\* fingerprint (no time in between) returns the value object of that set, with
\* the route that was set and nothing of an entry the set found in the store.
C22_RoundTrip ==
  \A i \in Calls :
    ( /\ enabled
      /\ i + 1 \in Calls
      /\ trace[i].op = "set" /\ trace[i + 1].op = "get"
      /\ SameKey(i, i + 1)
      /\ trace[i + 1].at = trace[i].at )
    => /\ trace[i].value.ok
       /\ trace[i + 1].value.present
       /\ trace[i + 1].value.route = trace[i].route
       /\ trace[i + 1].value =
            Entry(trace[i].route, trace[i].args, Meta, trace[i].at)
\* set(f, doc), set(f, doc2), get(f) = doc2
C22_Witness ==
  /\ enabled
  /\ Len(trace) = 3
  /\ trace[1].op = "set" /\ trace[2].op = "set" /\ trace[3].op = "get"
  /\ SameKey(1, 2) /\ SameKey(2, 3)
  /\ trace[2].found.present /\ trace[2].found.route = trace[1].route
  /\ trace[2].route # trace[1].route
  /\ trace[3].value.present /\ trace[3].value.route = trace[2].route

C24_DisabledNoOp ==
  ~enabled =>
    /\ \A k \in AllKeys : cache[k] = NoEntry
    /\ \A i \in Calls :
         /\ trace[i].op = "get" => trace[i].value = NoEntry
         /\ trace[i].op \in {"set", "delete", "clear"} =>
              trace[i].value = [ok |-> FALSE]
         /\ trace[i].op = "getStats" => trace[i].value = NoEntry
\* disabled: set returned false and the get after it a miss
C24_Witness ==
  /\ ~enabled
  /\ \E i \in Calls :
       /\ i + 1 \in Calls
       /\ trace[i].op = "set" /\ ~trace[i].value.ok
       /\ trace[i + 1].op = "get" /\ SameKey(i, i + 1)
       /\ trace[i + 1].value = NoEntry

\* Two texts that differ only by blanks around them, and by letter case.
Blank(s) == \A i \in 1..Len(s) : s[i] = " "
Parts(s) == {SubSeq(s, i, j) : i \in 1..(Len(s) + 1), j \in 0..Len(s)}
\* t is c with blanks around it
Pads(t, c) ==
  \E a \in 0..Len(t) :
    /\ a + Len(c) <= Len(t)
    /\ SubSeq(t, a + 1, a + Len(c)) = c
    /\ Blank(SubSeq(t, 1, a))
    /\ Blank(SubSeq(t, a + Len(c) + 1, Len(t)))
CasePairs == {{"P", "p"}, {"A", "a"}, {"R", "r"}}
SameLetters(c1, c2) ==
  /\ Len(c1) = Len(c2)
  /\ \A i \in 1..Len(c1) : c1[i] = c2[i] \/ {c1[i], c2[i]} \in CasePairs
SameText(s, t, anyCase) ==
  IF IsNull(s) \/ IsNull(t) \/ IsNumber(s) \/ IsNumber(t) THEN s = t
  ELSE \E c1 \in Parts(s), c2 \in Parts(t) :
         /\ Pads(s, c1) /\ Pads(t, c2)
         /\ IF anyCase THEN SameLetters(c1, c2) ELSE c1 = c2
SameFields(d1, d2) ==
  /\ SameText(d1.city, d2.city, TRUE)
  /\ SameText(d1.interests, d2.interests, TRUE)
  /\ SameText(d1.startDate, d2.startDate, FALSE)
  /\ SameText(d1.endDate, d2.endDate, FALSE)
  /\ SameText(d1.budget, d2.budget, FALSE)
  /\ SameText(d1.people, d2.people, FALSE)
\* the pairs of argument lists of the model that differ only in this way
SamePairs ==
  {<<p[1], p[2]>> : p \in {q \in KeyArgs \X KeyArgs : SameFields(q[1], q[2])}}
SameRequest(d1, d2) == <<d1, d2>> \in SamePairs

\* C26: generateKey returns the same key for two argument lists that differ
\* only by letter case or surrounding blanks in city and interests and by
\* surrounding blanks in the dates, the budget and the people count; so a get
\* with one of them returns what was set, within its TTL, with the other.
C26_SameFingerprint ==
  /\ \A i, j \in Calls :
       ( /\ trace[i].op = "generateKey" /\ trace[j].op = "generateKey"
         /\ SameRequest(trace[i].args, trace[j].args) )
       => trace[i].value = trace[j].value
  /\ \A i \in Calls :
       ( /\ enabled
         /\ i + 1 \in Calls
         /\ trace[i].op = "set" /\ trace[i].value.ok
         /\ trace[i + 1].op = "get"
         /\ SameRequest(trace[i].args, trace[i + 1].args)
         /\ trace[i + 1].at <= trace[i].at + CacheTTL )
       => /\ trace[i + 1].value.present
          /\ trace[i + 1].value.route = trace[i].route
\* two different argument lists got one key, and a third one another key
C26_Witness ==
  \E i, j, m \in Calls :
    /\ trace[i].op = "generateKey" /\ trace[j].op = "generateKey"
    /\ trace[m].op = "generateKey"
    /\ trace[i].args # trace[j].args
    /\ trace[i].args.city # trace[j].args.city
    /\ SameRequest(trace[i].args, trace[j].args)
    /\ trace[i].value = trace[j].value
    /\ trace[i].value # TypeError
    /\ ~SameRequest(trace[i].args, trace[m].args)
    /\ trace[m].value # trace[i].value

\* the arguments with "" for every field that is null or undefined
EmptyForAbsent(d) == [f \in DOMAIN d |-> IF IsNull(d[f]) THEN <<>> ELSE d[f]]
\* C27: generateKey returns a key for every argument list, an integer people
\* count included, and the key of a list with absent fields is the key of the
\* list with empty texts in their place.
C27_Total ==
  \A i \in Calls :
    trace[i].op = "generateKey" =>
      /\ trace[i].value # TypeError
      /\ trace[i].value = KeyOf(EmptyForAbsent(trace[i].args))

\* C31: there is no single-flight guarantee.  A request that missed the cache
\* starts a generation call of its own whatever the other requests are doing,
\* and cacheService.set replaces whatever is stored under the fingerprint; so
\* two requests of one fingerprint, the second looked up before the first's
\* generation completed, both generate, and the cache holds the result that
\* was written last.
C31_NoSingleFlight ==
  [][\A r \in Reqs :
       /\ (program = "router" /\ pc[r] = "spawn" /\ ~cachedRoute[r].present
             /\ pc'[r] # "spawn")
            => /\ pc'[r] = "fetching" /\ gen'[r].active
               /\ calls'[r].generate = calls[r].generate + 1
       /\ (enabled /\ pc[r] = "gen_returned" /\ pc'[r] = "deliver_call")
            => cache'[Key(r)].route = aiResult[r].content]_vars
\* both requests generated and stored; the clock never moved, so no entry
\* expired and the second lookup preceded the first set; the first request to
\* arrive wrote last
C31_Witness ==
  /\ clock = 0 /\ enabled
  /\ Key(1) = Key(2)
  /\ \A r \in {1, 2} :
       calls[r].get = 1 /\ calls[r].generate = 1 /\ calls[r].set = 1
  /\ cache[Key(1)].present /\ cache[Key(1)].route = Doc(1, DefaultModel)
  /\ pc[1] = "deliver_call" /\ pc[2] # "deliver_call"

\* C32: no error raised inside a detached continuation of the route handler
\* escapes it.  An error of the generation, of the cache write or of the
\* delivery is thrown into the continuation's own catch block, which is ready
\* to run on the hit path and on the miss path alike and ends the
\* continuation normally; the notification it may start settles without
\* rejecting.
C32_CaughtLocally ==
  /\ [](\A r \in Reqs :
          (pc[r] = "raised" /\ running = 0) =>
            ENABLED (CatchHit(r) \/ CatchMiss(r)))
  /\ [][\A r \in Reqs :
          /\ (program = "router" /\ error'[r] # "none")
               => pc'[r] \in {"raised", "notifying", "done"}
          /\ (pc[r] = "raised" /\ pc'[r] # "raised")
               => pc'[r] \in {"notifying", "done"}
          /\ (pc[r] = "notifying" /\ pc'[r] # "notifying")
               => pc'[r] = "done" /\ notification'[r] \in {"sent", "failed"}]_vars
\* a delivery failure caught on the hit path, and a failure on the miss path
\* whose notification failed as well
C32_Witness ==
  \E r, q \in Reqs :
    /\ pc[r] = "done" /\ error[r] = "smtp"
    /\ calls[r].generate = 0 /\ calls[r].deliver = 1
    /\ pc[q] = "done" /\ error[q] # "none" /\ MissPath(q)
    /\ notification[q] = "failed"

\* C33: the generation client holds no shared mutable state: every request
\* to the primary model carries the configured token budget, whatever other
\* generate calls are doing, and whenever no generate call is in flight the
\* client's token budget is the configured one.
C33_NoSharedBudget ==
  /\ \A r \in Reqs :
       (program = "router" /\ gen[r].active /\ gen[r].model = DefaultModel)
         => gen[r].max_tokens = tokenBudget
  /\ (\A r \in Reqs : ~gen[r].active) => maxTokens = tokenBudget

\* C34: the acknowledgment does not reveal what happened.  Every valid
\* request of the route handler that has been acknowledged holds the same
\* single response (status 200, success, the "processing" message), whether
\* its lookup hit or missed and whatever its generation and delivery did
\* afterwards.
C34_SameAcknowledgment ==
  \A r, q \in Reqs :
    ( /\ program = "router"
      /\ ~Threw(r) /\ validateFormData(formData[r]) /\ Returned(r)
      /\ ~Threw(q) /\ validateFormData(formData[q]) /\ Returned(q) )
    => /\ sent[r] = sent[q]
       /\ sent[r] = <<[status |-> 200, success |-> TRUE,
                       message |-> PROCESSING]>>
\* one request served from the cache and delivered, one generated and failed
C34_Witness ==
  \E r, q \in Reqs :
    /\ pc[r] = "done" /\ calls[r].generate = 0 /\ delivered[r]
    /\ pc[q] = "done" /\ MissPath(q) /\ error[q] = "smtp" /\ ~delivered[q]
    /\ sent[r] = sent[q] /\ Len(sent[r]) = 1

\* C35: each request receives exactly one response.  No handler writes a
\* second one, a response once written is never changed, and a handler that
\* has returned -- after a validation failure, a hit, a miss, an exception
\* while parsing, or with its continuation failing after the acknowledgment
\* -- has written one.
C35_ExactlyOneResponse ==
  /\ [](\A r \in Reqs :
          /\ Len(sent[r]) <= 1
          /\ responseSent[r] <=> Len(sent[r]) = 1
          /\ Returned(r) => Len(sent[r]) = 1)
  /\ [][\A r \in Reqs : sent[r] # <<>> => sent'[r] = sent[r]]_vars
\* an exception before the acknowledgment and a continuation that failed
\* after it, each with one response
C35_Witness ==
  \E r, q \in Reqs :
    /\ program = "router"
    /\ pc[r] = "done" /\ Len(sent[r]) = 1
    /\ sent[r][1].message = ACCEPTED_LATER
    /\ pc[q] = "done" /\ Len(sent[q]) = 1 /\ error[q] \in GenFailures
    /\ notification[q] = "sent"

\* the six fields the fingerprint is computed from
SameTrip(d1, d2) ==
  /\ d1.city = d2.city /\ d1.startDate = d2.startDate
  /\ d1.endDate = d2.endDate /\ d1.budget = d2.budget
  /\ d1.interests = d2.interests /\ d1.people = d2.people

\* C36: the fingerprint depends only on destination, dates, budget,
\* interests and people count.  Two valid requests that differ only in the
\* recipient have the same fingerprint; so a lookup made while an unexpired
\* entry written for another recipient's request is stored returns that
\* entry, and the request is mailed, to its own address, the document
\* generated for the other one, without a generation call.
C36_FingerprintIgnoresRecipient ==
  /\ [](\A r, q \in Reqs :
          ( /\ program = "router"
            /\ validateFormData(formData[r]) /\ validateFormData(formData[q])
            /\ SameTrip(formData[r], formData[q]) )
          => Key(r) = Key(q))
  /\ [][\A r \in Reqs :
          /\ (pc[r] = "lookup" /\ pc'[r] = "ack" /\ enabled)
               => \A q \in Reqs \ {r} :
                    ( /\ calls[q].set = 1
                      /\ SameTrip(formData[q], formData[r])
                      /\ formData[q].email # formData[r].email
                      /\ cache[Key(q)].present /\ cache[Key(q)].t >= clock )
                    => cachedRoute'[r] = cache[Key(q)]
          /\ (program = "router" /\ pc[r] = "spawn" /\ pc'[r] = "sending"
                /\ cachedRoute[r].present)
               => /\ mail'[r].to = formData[r].email
                  /\ mail'[r].route = cachedRoute[r].route
                  /\ calls'[r].generate = 0]_vars
\* the second caller is being mailed the document generated for the first
C36_Witness ==
  /\ formData[1].email = Email_u /\ formData[2].email = Email_v
  /\ calls[1].generate = 1 /\ calls[1].set = 1
  /\ pc[2] = "sending" /\ calls[2].generate = 0
  /\ mail[2].present /\ mail[2].to = Email_v
  /\ mail[2].route = Doc(1, DefaultModel)

\* C37: when the generation service answers with a success status but no
\* content, the handler treats the generation as failed: the text that
\* stands for the missing content is neither written to the cache nor mailed
\* to the recipient.
C37_EmptyIsFailure ==
  /\ \A k \in AllKeys : cache[k].present => cache[k].route # DefaultContent
  /\ \A r \in Reqs :
       /\ (program = "router" /\ mail[r].present)
            => mail[r].route # DefaultContent
       /\ (aiResult[r].present /\ aiResult[r].content = DefaultContent)
            => pc[r] \notin {"deliver_call", "sending"}

\* a step of request r's handler or continuation
Moved(r) == pc'[r] # pc[r] \/ mail'[r] # mail[r] \/ gen'[r] # gen[r]

\* C38: the cache is written only on the miss path after a successful
\* generation.  An entry appears or changes only when a miss-path request
\* whose generateRoute returned stores the returned content (with a fresh
\* expiry instant), and disappears only once it has expired; every other
\* step of a request -- a validation failure, a lookup that hits and the
\* delivery that follows, a generation that fails, a delivery that fails,
\* the catch blocks and the notification -- leaves every entry and its
\* expiry instant as it was.
C38_WrittenOnlyAfterGeneration ==
  [][/\ \A k \in AllKeys :
          cache'[k] # cache[k] =>
            \/ Expired(cache[k], clock) /\ cache'[k] = NoEntry
            \/ \E r \in Reqs :
                 /\ MissPath(r) /\ pc[r] = "gen_returned" /\ k = Key(r)
                 /\ pc'[r] = "deliver_call" /\ aiResult[r].present
                 /\ cache'[k].route = aiResult[r].content
                 /\ cache'[k].t = clock + CacheTTL
     /\ \A r \in Reqs :
          ( /\ Moved(r)
            /\ \/ cachedRoute'[r].present
               \/ pc'[r] \notin {"ack", "deliver_call"} )
          => cache' = cache]_vars
\* with a route stored by q, r was served from the cache and its delivery
\* failed: the entry is as q stored it
C38_Witness ==
  \E r, q \in Reqs :
    /\ calls[q].set = 1 /\ cache[Key(q)].present
    /\ cache[Key(q)].route = Doc(q, DefaultModel)
    /\ pc[r] = "done" /\ calls[r].get = 1 /\ calls[r].generate = 0
    /\ calls[r].deliver = 1 /\ error[r] = "smtp" /\ Key(r) = Key(q)
    /\ ~Expired(cache[Key(q)], clock)

\* the handler of r answered with the "processing" acknowledgment
Processing(r) ==
  sent[r] = <<[status |-> 200, success |-> TRUE, message |-> PROCESSING]>>
\* ... with the generic "accepted" acknowledgment, and did nothing else
Dropped(r) ==
  /\ sent[r] = <<[status |-> 200, success |-> TRUE, message |-> ACCEPTED]>>
  /\ calls[r] = NoCalls /\ pc[r] = "done"
\* what the schema of the route handler asks of a form
WellFormed(d) ==
  /\ ~IsNull(d.city) /\ Len(d.city) \in 2..100
  /\ ~IsNull(d.email) /\ IsEmail(d.email)
  /\ ~IsNull(d.people) /\ d.people # <<>>
  /\ \A i \in 1..Len(d.people) : d.people[i] \in Digits
  /\ IsNull(d.budget) \/ Len(d.budget) <= 500
  /\ IsNull(d.interests) \/ Len(d.interests) <= 1000
  /\ IsNull(d.name) \/ Len(d.name) <= 200

\* C39 as stated: every request with destination and recipient present gets
\* the "processing" acknowledgment and starts the pipeline; only a request
\* missing one of the two gets the generic "accepted" one.
C39_Original ==
  \A r \in Reqs :
    (Returned(r) /\ ~Threw(r)) =>
      IF MissingRequired(r) THEN Dropped(r)
      ELSE Processing(r) /\ (program = "router" => calls[r].get = 1)
\* C39 amended: that holds of the inline server.  The route handler gives
\* the "processing" acknowledgment and starts the pipeline (cache lookup,
\* then delivery or generation) exactly for the forms its schema accepts: a
\* city of 2 to 100 characters, a well-formed email, a people count of
\* digits, optional texts within their lengths.  Every other form, with or
\* without city and email, gets the generic "accepted" acknowledgment and is
\* dropped.
C39_SchemaDecides ==
  \A r \in Reqs :
    (Returned(r) /\ ~Threw(r)) =>
      IF program = "inline"
      THEN IF MissingRequired(r) THEN Dropped(r) ELSE Processing(r)
      ELSE IF WellFormed(formData[r])
           THEN /\ Processing(r) /\ calls[r].get = 1
                /\ pc[r] = "done" => calls[r].deliver + calls[r].generate >= 1
           ELSE Dropped(r)
\* a form with city and email that the route handler dropped, next to one it
\* processed
C39_Witness ==
  \E r, q \in Reqs :
    /\ program = "router"
    /\ formData[r].city = City_P /\ ~IsNull(formData[r].email)
    /\ Dropped(r)
    /\ WellFormed(formData[q]) /\ Processing(q) /\ pc[q] = "done"

\* C40: the background loop of the inline server ends whatever the services
\* answer; it issues at most MAX_RETRIES + 1 generation requests for a
\* request, one more only after a request failed; the first successful
\* response ends the generation, and the mail that follows ends the loop
\* whether it was sent or not.
C40_InlineLoopEnds ==
  /\ \A r \in Reqs :
       (program = "inline" /\ gen[r].active) ~> (pc[r] = "done")
  /\ [](\A r \in Reqs :
          (program = "inline" /\ gen[r].active) =>
            /\ gen[r].fetches \in 1..(MAX_RETRIES + 1)
            /\ gen[r].fetches =
                 gen[r].retryCount + (IF pc[r] = "i_delay" THEN 0 ELSE 1))
  /\ [][\A r \in Reqs :
          program = "inline" =>
            /\ (pc[r] = "i_fetching" /\ pc'[r] \in {"i_mailing", "done"})
                 => ~gen'[r].active
            /\ (pc[r] = "i_mailing" /\ pc'[r] # "i_mailing")
                 => pc'[r] = "done" /\ ~gen'[r].active
            /\ pc[r] = "done" => pc'[r] = "done" /\ ~gen'[r].active]_vars
\* the third and last request of one loop is in flight; another loop ended
\* after its mail failed, with one generation
C40_Witness ==
  \E r, q \in Reqs :
    /\ program = "inline" /\ resendKey
    /\ pc[r] = "i_fetching" /\ gen[r].fetches = MAX_RETRIES + 1
    /\ pc[q] = "done" /\ calls[q].deliver = 1 /\ ~delivered[q]
    /\ error[q] = "none"
====
